---- MODULE Spec2Model ----
(***************************************************************************)
(* Orbyx: a Supabase-style query builder over a node-pg connection pool.   *)
(* The module models the execution engine (sqlImpl, QueryBuilder.execute,  *)
(* QueryBuilder.stream) and the transaction coordinator                    *)
(* (createClient.transaction) as state machines over a shared pool of      *)
(* connections, with the error helpers of errors.ts as operators.          *)
(***************************************************************************)
EXTENDS Integers, Sequences, FiniteSets, TLC

VARIABLES
    free,        \* connections idle in the pool
    log,         \* what reached the pool and the connections, in order
    onErrorLog,  \* errors handed to safeInvokeOnError, in order
    onQueryLog,  \* statements handed to safeInvokeOnQuery, in order
    retries,     \* ClientOptions.retries
    state,       \* QueryBuilder.state
    safety,      \* QueryBuilderContext.safety
    ctxClient,   \* QueryBuilderContext.client: "none", or the transaction's connection
    aborted,     \* AbortSignal.aborted
    listeners,   \* the runner of each "abort" listener still registered
    exPc, exAttempt, exBorrowed, exErrs, exAbort, exResp,    \* QueryBuilder.execute
    rqPc, rqConn, rqRows,                                    \* its runQuery closure
    sqlPc, sqlRunner, sqlAttempt, sqlErrs, sqlResp,          \* sqlImpl
    txPc, txConn, txErr, txValue, txCallback, txStmts, txResp,  \* transaction()
    txNested,    \* what a nested tx.transaction() resolved with, or Null
    stPc,        \* stream(): "idle", "call", "connect", "timeout", "done"
    stResp,      \* what stream() resolved with
    stClient,    \* the connection the stream's statement runs on
    stBorrowed,  \* stream()'s borrowedClient, or "none"
    closed,      \* the iterable's closed flag
    qPc,         \* the submitted PgQuery: "none", "running", "end", "error"
    qEmitted,    \* rows the backend has emitted so far
    genPc,       \* the async generator: "none", "suspendedStart", "suspendedYield",
                 \* "awaiting", "completed", "returned", "threw"
    genAttached, \* the generator body has attached its listeners
    queue,       \* the generator's queue
    genDone,     \* the generator's done flag
    genErr,      \* the generator's err is set
    yielded,     \* rows handed to the consumer, in order
    compiled,    \* what compile(state, safety) gave, or Null before it ran
    recompiled,  \* what a second compile of the same state gave, or Null
    countCompiled, \* what compileCount(state, safety) gave afterwards, or Null
    called,      \* the public call made last: its number, method and arguments, or Null
    outcome,     \* what that call threw, NoThrow when it returned, Null before any call
    hooks,       \* ClientOptions.hooks: which observers are set, or Undefined
    ranOnQuery,  \* how many of the onQuery callbacks handed to setImmediate have run
    ranOnError,  \* how many of the onError callbacks handed to setImmediate have run
    hookSeen,    \* the observer invocations of the callback that ran last: observer,
                 \* argument, whether it threw
    uncaught     \* an exception left a setImmediate callback

sqlVars == <<sqlPc, sqlRunner, sqlAttempt, sqlErrs, sqlResp>>
txVars == <<txPc, txConn, txErr, txValue, txCallback, txStmts, txResp, txNested>>
exVars == <<exPc, exAttempt, exBorrowed, exErrs, exAbort, exResp>>
rqVars == <<rqPc, rqConn, rqRows>>
hookVars == <<hooks, ranOnQuery, ranOnError, hookSeen, uncaught>>
cfgVars == <<retries, state, safety, ctxClient, compiled, recompiled, countCompiled,
            called, outcome, hookVars>>
sigVars == <<aborted, listeners>>
stVars == <<stPc, stResp, stClient, stBorrowed, closed>>
qVars == <<qPc, qEmitted>>
genVars == <<genPc, genAttached, queue, genDone, genErr, yielded>>
streamVars == <<stVars, qVars, genVars>>
vars == <<free, log, onErrorLog, onQueryLog, cfgVars, sigVars, sqlVars, txVars, exVars, rqVars,
          streamVars>>

(***************************************************************************)
(* Bounds of the model.                                                    *)
(***************************************************************************)
\* largest retries.attempts a client is configured with
MaxAttempts == 2
\* scoped statements one transaction callback awaits
MaxTxStmts == 1
\* rows a statement returns at most
MaxRows == 2

Conns == {"c1", "c2"}

\* no compile has been repeated and no builder or helper call has been made
NoCalls ==
    /\ recompiled = [null |-> TRUE] /\ countCompiled = [null |-> TRUE]
    /\ called = [null |-> TRUE] /\ outcome = [null |-> TRUE]

\* a client created without hooks: safeInvokeOnQuery and safeInvokeOnError return
\* at once and no observer ever runs
NoHooks ==
    /\ hooks = [undefined |-> TRUE]
    /\ ranOnQuery = 0 /\ ranOnError = 0 /\ hookSeen = <<>> /\ uncaught = FALSE

(***************************************************************************)
(* JavaScript values.  A string code is a sequence of characters, so that  *)
(* code.slice(0, 2) is SubSeq(code, 1, 2).                                 *)
(***************************************************************************)
Null == [null |-> TRUE]
Undefined == [undefined |-> TRUE]
\* a call that returned without throwing
NoThrow == [nothrow |-> TRUE]

S_QUERY == <<"Q", "U", "E", "R", "Y">>
S_CONNECTION == <<"C", "O", "N", "N", "E", "C", "T", "I", "O", "N">>
S_TRANSACTION == <<"T", "R", "A", "N", "S", "A", "C", "T", "I", "O", "N">>
S_VALIDATION == <<"V", "A", "L", "I", "D", "A", "T", "I", "O", "N">>
S_PGRST116 == <<"P", "G", "R", "S", "T", "1", "1", "6">>

\* new Error(message), with a string .code when hasCode (a pg or node error)
JsError(message, hasCode, code) ==
    [isError |-> TRUE, hasCode |-> hasCode, code |-> code,
     hasMessage |-> TRUE, message |-> message,
     details |-> Undefined, pgCode |-> <<>>]

\* a thrown value that is no Error and carries neither code nor message
NonError ==
    [isError |-> FALSE, hasCode |-> FALSE, code |-> <<>>,
     hasMessage |-> FALSE, message |-> "",
     details |-> Undefined, pgCode |-> <<>>]

E_CONN_EXC == JsError("connection failure", TRUE, <<"0", "8", "0", "0", "6">>)
E_SERIALIZE == JsError("could not serialize", TRUE, <<"4", "0", "0", "0", "1">>)
E_UNIQUE == JsError("duplicate key value", TRUE, <<"2", "3", "5", "0", "5">>)
E_RESET == JsError("read ECONNRESET", TRUE,
                   <<"E", "C", "O", "N", "N", "R", "E", "S", "E", "T">>)
E_PLAIN == JsError("boom", FALSE, <<>>)

\* what the driver or a callback may throw
Causes == {E_CONN_EXC, E_UNIQUE, E_RESET, E_PLAIN, NonError}

(***************************************************************************)
(* errors.ts                                                               *)
(***************************************************************************)
\* pgCode <<>> stands for undefined and for "", which createError both drops
createError(code, message, details, pgCode) ==
    [isError |-> FALSE, hasCode |-> TRUE, code |-> code,
     hasMessage |-> TRUE, message |-> message,
     details |-> details, pgCode |-> pgCode]

createErrorFromThrown(defaultCode, fallbackMessage, err) ==
    createError(defaultCode,
                IF err.isError THEN err.message ELSE fallbackMessage,
                err,
                IF err.hasCode THEN err.code ELSE <<>>)

isDbError(value) == value.hasCode /\ value.hasMessage

RETRIABLE_NODE_CODES ==
    { <<"E", "C", "O", "N", "N", "R", "E", "S", "E", "T">>,
      <<"E", "T", "I", "M", "E", "D", "O", "U", "T">>,
      <<"E", "C", "O", "N", "N", "R", "E", "F", "U", "S", "E", "D">>,
      <<"E", "N", "O", "T", "F", "O", "U", "N", "D">>,
      <<"E", "P", "I", "P", "E">>,
      <<"E", "A", "I", "_", "A", "G", "A", "I", "N">> }

\* reading .code of null or undefined throws a TypeError, which is no DbError
isRetriableErrorThrown(err) ==
    IF err \in {Null, Undefined}
      THEN JsError("Cannot read properties of null or undefined (reading 'code')",
                   FALSE, <<>>)
      ELSE NoThrow

isRetriableError(err) ==
    LET code == IF err.hasCode THEN err.code ELSE <<>>
    IN  \/ /\ Len(code) >= 2
           /\ SubSeq(code, 1, 2) \in {<<"0", "8">>, <<"4", "0">>}
        \/ code \in RETRIABLE_NODE_CODES

(***************************************************************************)
(* validate.ts: identifiers are sequences of characters.                   *)
(***************************************************************************)
Letters ==
    {"a", "b", "c", "d", "e", "f", "g", "h", "i", "j", "k", "l", "m",
     "n", "o", "p", "q", "r", "s", "t", "u", "v", "w", "x", "y", "z",
     "A", "B", "C", "D", "E", "F", "G", "H", "I", "J", "K", "L", "M",
     "N", "O", "P", "Q", "R", "S", "T", "U", "V", "W", "X", "Y", "Z"}
Digits == {"0", "1", "2", "3", "4", "5", "6", "7", "8", "9"}

\* IDENTIFIER_REGEX = /^[a-zA-Z_][a-zA-Z0-9_]*$/
IDENTIFIER_REGEX(name) ==
    /\ Len(name) >= 1
    /\ name[1] \in Letters \cup {"_"}
    /\ \A i \in 2..Len(name) : name[i] \in Letters \cup Digits \cup {"_"}

MAX_IDENTIFIER_LENGTH == 63

\* the validation without its test of the length
M_validateIdentifier(name, kind) ==
    IF Len(name) = 0
      THEN createError(S_VALIDATION, "Invalid " \o kind \o ": must be a non-empty string",
                       Undefined, <<>>)
    ELSE IF ~IDENTIFIER_REGEX(name)
      THEN createError(S_VALIDATION,
                       "Invalid " \o kind \o ": only letters, digits, and underscore allowed",
                       Undefined, <<>>)
    ELSE NoThrow

\* validateIdentifier(name, kind): the VALIDATION error it throws, or NoThrow
validateIdentifier(name, kind) ==
    IF Len(name) = 0
      THEN createError(S_VALIDATION, "Invalid " \o kind \o ": must be a non-empty string",
                       Undefined, <<>>)
    ELSE IF Len(name) > MAX_IDENTIFIER_LENGTH
      THEN createError(S_VALIDATION,
                       "Invalid " \o kind \o ": PostgreSQL identifiers must be <=63 characters",
                       Undefined, <<>>)
    ELSE IF ~IDENTIFIER_REGEX(name)
      THEN createError(S_VALIDATION,
                       "Invalid " \o kind \o ": only letters, digits, and underscore allowed",
                       Undefined, <<>>)
    ELSE NoThrow

\* the first throw of a sequence of checks made in order, or NoThrow
RECURSIVE FirstThrow(_)
FirstThrow(checks) ==
    IF checks = <<>> THEN NoThrow
    ELSE IF checks[1] # NoThrow THEN checks[1]
    ELSE FirstThrow(Tail(checks))

\* String.prototype.trim, for the blank the model's strings may hold
RECURSIVE TrimLeft(_)
TrimLeft(str) ==
    IF str # <<>> /\ Head(str) = " " THEN TrimLeft(Tail(str)) ELSE str

RECURSIVE TrimRight(_)
TrimRight(str) ==
    IF str # <<>> /\ str[Len(str)] = " "
      THEN TrimRight(SubSeq(str, 1, Len(str) - 1)) ELSE str

Trim(str) == TrimRight(TrimLeft(str))

\* str.split(","): the pieces between the commas, empty pieces kept
RECURSIVE SplitComma(_, _)
SplitComma(str, piece) ==
    IF str = <<>> THEN <<piece>>
    ELSE IF Head(str) = "," THEN <<piece>> \o SplitComma(Tail(str), <<>>)
    ELSE SplitComma(Tail(str), Append(piece, Head(str)))

\* .split(",").map((p) => p.trim()).filter(Boolean)
ColumnParts(columns) ==
    LET trimmed == [i \in DOMAIN SplitComma(columns, <<>>) |->
                       Trim(SplitComma(columns, <<>>)[i])]
        NonEmpty(part) == part # <<>>
    IN  SelectSeq(trimmed, NonEmpty)

\* validateColumnList(columns): the error it throws, or NoThrow
validateColumnList(columns) ==
    IF Len(columns) = 0
      THEN createError(S_VALIDATION, "Invalid columns: must be a non-empty string",
                       Undefined, <<>>)
    ELSE IF Trim(columns) = <<"*">> THEN NoThrow
    ELSE LET parts == ColumnParts(Trim(columns))
         IN  FirstThrow([i \in DOMAIN parts |-> validateIdentifier(parts[i], "column")])

(***************************************************************************)
(* builder/types.ts and builder/compile.ts: what compile(state, safety)    *)
(* throws.  A nullable string field holds Null or [some |-> string]; a     *)
(* filter value is [scalar |-> v] or [arr |-> <<v1, ...>>]; bulk values    *)
(* are [rows |-> number of rows, keys |-> Object.keys(rows[0])].           *)
(***************************************************************************)
Some(v) == [some |-> v]

createInitialState(table, schema) ==
    [table |-> table, schema |-> schema, operation |-> "select",
     selectColumns |-> Null, insertValues |-> Null, updateValues |-> Null,
     upsertValues |-> Null, upsertConflictColumns |-> Null,
     rpcName |-> Null, rpcArgs |-> Null, filters |-> <<>>, orderBy |-> <<>>,
     limitCount |-> Null, rangeFrom |-> Null, rangeTo |-> Null,
     single |-> FALSE, maybeSingle |-> FALSE, returnSelect |-> Null,
     countOption |-> "null", abortSignal |-> "null",
     upsertIgnoreDuplicates |-> FALSE]

\* a FilterClause; column <<>> stands for an absent column
Filter(type, column, value) ==
    [type |-> type, column |-> column, value |-> value,
     orFilters |-> <<>>, matchRecord |-> <<>>, notOperator |-> "undefined",
     textSearchConfig |-> "undefined", textSearchType |-> "undefined"]

DEFAULT_MAX_IN_ELEMENTS == 1000
DEFAULT_MAX_TOTAL_PARAMS == 5000

\* the limit read without the configured value
M_maxInOf(sf) == DEFAULT_MAX_IN_ELEMENTS

\* safety?.maxInElements ?? DEFAULT_MAX_IN_ELEMENTS
maxInOf(sf) ==
    IF sf = Undefined \/ sf.maxInElements = Undefined
      THEN DEFAULT_MAX_IN_ELEMENTS ELSE sf.maxInElements.some

IsArray(value) == "arr" \in DOMAIN value

\* what buildWhere throws while it handles filter f, or NoThrow
filterThrown(f, sf) ==
    IF f.type = "or" /\ Len(f.orFilters) > 0
      THEN FirstThrow([i \in DOMAIN f.orFilters |->
                          validateIdentifier(f.orFilters[i].column, "column")])
    ELSE IF f.type = "match" /\ Len(f.matchRecord) > 0
      THEN FirstThrow([i \in DOMAIN f.matchRecord |->
                          validateIdentifier(f.matchRecord[i].key, "column")])
    ELSE FirstThrow(<<
           IF f.column # <<>> THEN validateIdentifier(f.column, "column") ELSE NoThrow,
           IF f.type = "in" /\ IsArray(f.value) /\ Len(f.value.arr) > maxInOf(sf)
             THEN createError(S_VALIDATION,
                    "IN list too large: limit " \o ToString(maxInOf(sf)) \o " elements",
                    Undefined, <<>>)
           ELSE IF f.type = "notIn" /\ IsArray(f.value) /\ Len(f.value.arr) > maxInOf(sf)
             THEN createError(S_VALIDATION,
                    "NOT IN list too large: limit " \o ToString(maxInOf(sf)) \o " elements",
                    Undefined, <<>>)
           ELSE NoThrow >>)

\* what buildWhere(state, params, startIndex, safety) throws, or NoThrow
buildWhereThrown(st, sf) ==
    FirstThrow([i \in DOMAIN st.filters |-> filterThrown(st.filters[i], sf)])

\* validateColumnList(state.returnSelect) when a RETURNING list is set
returningThrown(st) ==
    IF st.returnSelect = Null \/ st.returnSelect.some = <<>> THEN NoThrow
    ELSE validateColumnList(st.returnSelect.some)

\* Object.keys(rows[0]) of an empty row list: a TypeError, which is no DbError
E_TYPEERROR == JsError("Cannot convert undefined or null to object", FALSE, <<>>)

\* the checks of a bulk insert or upsert, in the order compile makes them
bulkThrown(values, what) ==
    FirstThrow(<<
      IF values.rows = 0 THEN E_TYPEERROR ELSE NoThrow,
      IF values.rows * Len(values.keys) > DEFAULT_MAX_TOTAL_PARAMS
        THEN createError(S_VALIDATION,
                 what \o " too large: would create more than "
                      \o ToString(DEFAULT_MAX_TOTAL_PARAMS) \o " parameters",
                 Undefined, <<>>)
        ELSE NoThrow,
      FirstThrow([i \in DOMAIN values.keys |-> validateIdentifier(values.keys[i], "column")]) >>)

\* the branch of compile that state takes
compileBranch(st) ==
    IF st.operation = "select" THEN "select"
    ELSE IF st.operation = "insert" /\ st.insertValues # Null THEN "insert"
    ELSE IF st.operation = "update" /\ st.updateValues # Null THEN "update"
    ELSE IF /\ st.operation = "upsert" /\ st.upsertValues # Null
            /\ st.upsertConflictColumns # Null
            /\ Len(st.upsertConflictColumns.some) > 0 THEN "upsert"
    ELSE IF st.operation = "delete" THEN "delete"
    ELSE IF st.operation = "rpc" /\ st.rpcName # Null /\ st.rpcName.some # <<>>
      THEN "rpc"
    ELSE "none"

\* what compile(state, safety) throws, or NoThrow when it returns a statement
compileThrown(st, sf) ==
    LET branch == compileBranch(st)
        tableChecks == << validateIdentifier(st.schema, "schema"),
                          validateIdentifier(st.table, "table") >>
        rest ==
          CASE branch = "select" ->
                 << validateColumnList(IF st.selectColumns = Null THEN <<"*">>
                                       ELSE st.selectColumns.some),
                    buildWhereThrown(st, sf),
                    FirstThrow([i \in DOMAIN st.orderBy |->
                                   validateIdentifier(st.orderBy[i].column, "column")]) >>
            [] branch = "insert" ->
                 << bulkThrown(st.insertValues.some, "Insert"), returningThrown(st) >>
            [] branch = "update" ->
                 << FirstThrow([i \in DOMAIN st.updateValues.some |->
                       validateIdentifier(st.updateValues.some[i].key, "column")]),
                    buildWhereThrown(st, sf),
                    returningThrown(st) >>
            [] branch = "upsert" ->
                 << bulkThrown(st.upsertValues.some, "Upsert"),
                    FirstThrow([i \in DOMAIN st.upsertConflictColumns.some |->
                       validateIdentifier(st.upsertConflictColumns.some[i], "column")]),
                    returningThrown(st) >>
            [] branch = "delete" ->
                 << buildWhereThrown(st, sf), returningThrown(st) >>
            [] branch = "rpc" ->
                 << validateIdentifier(st.schema, "schema"),
                    validateIdentifier(st.rpcName.some, "table") >>
            [] OTHER -> <<>>
    IN  FirstThrow(tableChecks \o rest)

\* compile returns { text: "", values: [] }: no branch took the state
compileTextEmpty(st) == compileBranch(st) = "none"

(***************************************************************************)
(* builder/compile.ts: the statement compile builds.  The text is a        *)
(* sequence of tokens: a keyword or punctuation, a quoted identifier       *)
(* (quoteId(name)), or a positional placeholder ($num).                    *)
(***************************************************************************)
Kw(word) == [kind |-> "kw", word |-> word, name |-> <<>>, num |-> 0]
\* quoteId(name): `"${name.replace(/"/g, '""')}"`, the outer quotes being the token's kind
quoteId(name) ==
    LET RECURSIVE Doubled(_)
        Doubled(str) ==
            IF str = <<>> THEN <<>>
            ELSE IF Head(str) = "\"" THEN <<"\"", "\"">> \o Doubled(Tail(str))
            ELSE <<Head(str)>> \o Doubled(Tail(str))
    IN  [kind |-> "id", word |-> "", name |-> Doubled(name), num |-> 0]
\* `$${n}`
Ph(n) == [kind |-> "ph", word |-> "", name |-> <<>>, num |-> n]

\* parts.join(sep) for a sequence of token sequences
RECURSIVE Join(_, _)
Join(parts, sep) ==
    IF parts = <<>> THEN <<>>
    ELSE IF Len(parts) = 1 THEN parts[1]
    ELSE parts[1] \o <<sep>> \o Join(Tail(parts), sep)

\* toks.join(sep) for a sequence of single tokens, however long
JoinTokens(toks, sep) ==
    [k \in 1..(2 * Len(toks) - 1) |-> IF k % 2 = 1 THEN toks[(k + 1) \div 2] ELSE sep]

\* the operator of an .or() entry
orOp(op) ==
    CASE op = "eq" -> "=" [] op = "neq" -> "<>" [] op = "gt" -> ">" [] op = "gte" -> ">="
      [] op = "lt" -> "<" [] op = "lte" -> "<=" [] OTHER -> "="

\* the operator of a .not() filter
notOp(op) ==
    CASE op = "eq" -> "=" [] op = "neq" -> "<>" [] op = "gt" -> ">" [] op = "gte" -> ">="
      [] op = "lt" -> "<" [] op = "lte" -> "<=" [] op = "like" -> "LIKE"
      [] op = "ilike" -> "ILIKE" [] op = "is" -> "IS" [] OTHER -> "="

\* the operator the final switch writes for a filter type, "" when it writes nothing
switchOp(type) ==
    CASE type = "eq" -> "=" [] type = "neq" -> "<>" [] type = "gt" -> ">"
      [] type = "gte" -> ">=" [] type = "lt" -> "<" [] type = "lte" -> "<="
      [] type = "like" -> "LIKE" [] type = "ilike" -> "ILIKE" [] type = "is" -> "IS"
      [] type = "isDistinct" -> "IS DISTINCT FROM" [] type = "contains" -> "@>"
      [] type = "containedBy" -> "<@" [] type = "overlaps" -> "&&" [] OTHER -> ""

\* the function of a textSearch filter
tsFunction(type) ==
    CASE type = "phrase" -> "phraseto_tsquery" [] type = "websearch" -> "websearch_to_tsquery"
      [] OTHER -> "plainto_tsquery"

\* one turn of buildWhere's loop for filter f with the counter at idx: the part it
\* pushes (parts = <<>> when it pushes none), the values it pushes, the counter after
filterCompiled(f, idx) ==
    LET col == IF f.column # <<>> THEN <<quoteId(f.column)>> ELSE <<>>
    IN  IF f.type = "or" /\ Len(f.orFilters) > 0
          THEN [parts |-> << <<Kw("(")>>
                     \o Join([i \in DOMAIN f.orFilters |->
                               << quoteId(f.orFilters[i].column), Kw(orOp(f.orFilters[i].op)),
                                  Ph(idx + i - 1) >>], Kw("OR"))
                     \o <<Kw(")")>> >>,
                params |-> [i \in DOMAIN f.orFilters |-> f.orFilters[i].value],
                next |-> idx + Len(f.orFilters)]
        ELSE IF f.type = "match" /\ Len(f.matchRecord) > 0
          THEN [parts |-> << <<Kw("(")>>
                     \o Join([i \in DOMAIN f.matchRecord |->
                               << quoteId(f.matchRecord[i].key), Kw("="), Ph(idx + i - 1) >>],
                             Kw("AND"))
                     \o <<Kw(")")>> >>,
                params |-> [i \in DOMAIN f.matchRecord |-> f.matchRecord[i].value],
                next |-> idx + Len(f.matchRecord)]
        ELSE IF f.type \in {"in", "notIn"} /\ IsArray(f.value)
          THEN [parts |-> << col \o <<Kw(IF f.type = "in" THEN "IN (" ELSE "NOT IN (")>>
                     \o JoinTokens([i \in DOMAIN f.value.arr |-> Ph(idx + i - 1)], Kw(","))
                     \o <<Kw(")")>> >>,
                params |-> [i \in DOMAIN f.value.arr |-> [scalar |-> f.value.arr[i]]],
                next |-> idx + Len(f.value.arr)]
        ELSE IF f.type = "textSearch"
          THEN [parts |-> << <<Kw("to_tsvector("), Ph(idx), Kw("::regconfig,")>> \o col
                     \o <<Kw(") @@"), Kw(tsFunction(f.textSearchType)), Kw("("), Ph(idx),
                          Kw("::regconfig,"), Ph(idx + 1), Kw(")")>> >>,
                params |-> << [config |-> IF f.textSearchConfig = "undefined" THEN "english"
                                          ELSE f.textSearchConfig], f.value >>,
                next |-> idx + 2]
        ELSE IF f.type = "not" /\ f.notOperator # "undefined"
          THEN [parts |-> << <<Kw("NOT (")>> \o col
                     \o <<Kw(notOp(f.notOperator)), Ph(idx), Kw(")")>> >>,
                params |-> <<f.value>>,
                next |-> idx + 1]
        ELSE [parts |-> IF switchOp(f.type) = "" THEN <<>>
                        ELSE << col \o <<Kw(switchOp(f.type)), Ph(idx)>> >>,
              params |-> <<f.value>>,
              next |-> idx + 1]

\* the loop taking the filters last to first
RECURSIVE M_whereLoop(_, _)
M_whereLoop(filters, idx) ==
    IF filters = <<>> THEN [parts |-> <<>>, params |-> <<>>, next |-> idx]
    ELSE LET one == filterCompiled(filters[Len(filters)], idx)
             rest == M_whereLoop(SubSeq(filters, 1, Len(filters) - 1), one.next)
         IN  [parts |-> one.parts \o rest.parts,
              params |-> one.params \o rest.params,
              next |-> rest.next]

\* buildWhere's loop over filters from counter idx: parts, params, nextIndex
RECURSIVE whereLoop(_, _)
whereLoop(filters, idx) ==
    IF filters = <<>> THEN [parts |-> <<>>, params |-> <<>>, next |-> idx]
    ELSE LET one == filterCompiled(Head(filters), idx)
             rest == whereLoop(Tail(filters), one.next)
         IN  [parts |-> one.parts \o rest.parts,
              params |-> one.params \o rest.params,
              next |-> rest.next]

\* buildWhere(state, params, startIndex, safety) when it does not throw
buildWhere(st, startIndex) ==
    IF Len(st.filters) = 0 THEN [sql |-> <<>>, params |-> <<>>, nextIndex |-> startIndex]
    ELSE LET loop == whereLoop(st.filters, startIndex)
         IN  [sql |-> <<Kw("WHERE")>> \o Join(loop.parts, Kw("AND")),
              params |-> loop.params,
              nextIndex |-> loop.next]

\* [quoteId(schema), quoteId(table)].join("."), the checks of quotedTableSafe passed
quotedTableSafe(schema, table) == <<quoteId(schema), Kw("."), quoteId(table)>>

\* cols === "*" ? "*" : cols.split(",").map((c) => quoteId(c.trim())).join(", ")
columnList(cols) ==
    IF cols = <<"*">> THEN <<Kw("*")>>
    ELSE Join([i \in DOMAIN SplitComma(cols, <<>>) |->
                  <<quoteId(Trim(SplitComma(cols, <<>>)[i]))>>], Kw(","))

\* the RETURNING clause compile appends when state.returnSelect is set
returningText(st) ==
    IF st.returnSelect = Null \/ st.returnSelect.some = <<>> THEN <<>>
    ELSE <<Kw("RETURNING")>> \o columnList(st.returnSelect.some)

\* rowPlaceholders of a bulk insert or upsert, from counter paramIndex
rowPlaceholders(values, paramIndex) ==
    Join([i \in 1..values.rows |->
             <<Kw("(")>>
             \o Join([j \in DOMAIN values.keys |->
                        <<Ph(paramIndex + (i - 1) * Len(values.keys) + (j - 1))>>], Kw(","))
             \o <<Kw(")")>>],
         Kw(","))

\* rows.forEach((row) => keys.forEach((k) => values.push(row[k])))
rowValues(values) ==
    [n \in 1..(values.rows * Len(values.keys)) |-> [cell |-> n]]

\* the clause with limitCount tested before the range
M_pageClause(st, paramIndex) ==
    IF st.limitCount # Null
      THEN [text |-> <<Kw("LIMIT"), Ph(paramIndex)>>,
            values |-> << [scalar |-> st.limitCount.some] >>]
    ELSE IF st.rangeFrom # Null /\ st.rangeTo # Null
      THEN [text |-> <<Kw("LIMIT"), Ph(paramIndex), Kw("OFFSET"), Ph(paramIndex + 1)>>,
            values |-> << [scalar |-> st.rangeTo.some - st.rangeFrom.some + 1],
                          [scalar |-> st.rangeFrom.some] >>]
    ELSE IF st.single \/ st.maybeSingle
      THEN [text |-> <<Kw("LIMIT"), Ph(paramIndex)>>, values |-> << [scalar |-> 1] >>]
    ELSE [text |-> <<>>, values |-> <<>>]

\* the LIMIT / OFFSET clause of a select and the values it binds, from counter paramIndex
pageClause(st, paramIndex) ==
    IF st.rangeFrom # Null /\ st.rangeTo # Null
      THEN [text |-> <<Kw("LIMIT"), Ph(paramIndex), Kw("OFFSET"), Ph(paramIndex + 1)>>,
            values |-> << [scalar |-> st.rangeTo.some - st.rangeFrom.some + 1],
                          [scalar |-> st.rangeFrom.some] >>]
    ELSE IF st.limitCount # Null
      THEN [text |-> <<Kw("LIMIT"), Ph(paramIndex)>>,
            values |-> << [scalar |-> st.limitCount.some] >>]
    ELSE IF st.single \/ st.maybeSingle
      THEN [text |-> <<Kw("LIMIT"), Ph(paramIndex)>>, values |-> << [scalar |-> 1] >>]
    ELSE [text |-> <<>>, values |-> <<>>]

\* compile(state, safety): what it throws, or the text and the values it returns
compile(st, sf) ==
    IF compileThrown(st, sf) # NoThrow
      THEN [ok |-> FALSE, thrown |-> compileThrown(st, sf), text |-> <<>>, values |-> <<>>]
    ELSE
    LET branch == compileBranch(st)
        fullTable == quotedTableSafe(st.schema, st.table)
        Returned(text, values) ==
            [ok |-> TRUE, thrown |-> NoThrow, text |-> text, values |-> values]
    IN  CASE branch = "select" ->
               LET where == buildWhere(st, 1)
                   paramIndex == where.nextIndex
                   order ==
                     IF Len(st.orderBy) > 0
                       THEN <<Kw("ORDER BY")>>
                            \o Join([i \in DOMAIN st.orderBy |->
                                 << quoteId(st.orderBy[i].column),
                                    Kw(IF st.orderBy[i].ascending THEN "ASC" ELSE "DESC") >>
                                 \o (IF st.orderBy[i].nullsFirst = "true"
                                       THEN <<Kw("NULLS FIRST")>>
                                     ELSE IF st.orderBy[i].nullsFirst = "false"
                                       THEN <<Kw("NULLS LAST")>>
                                     ELSE <<>>)],
                                 Kw(","))
                       ELSE <<>>
                   page == pageClause(st, paramIndex)
               IN  Returned(<<Kw("SELECT")>>
                              \o columnList(IF st.selectColumns = Null THEN <<"*">>
                                            ELSE st.selectColumns.some)
                              \o <<Kw("FROM")>> \o fullTable \o where.sql \o order \o page.text,
                            where.params \o page.values)
          [] branch = "insert" ->
               Returned(<<Kw("INSERT INTO")>> \o fullTable \o <<Kw("(")>>
                          \o Join([i \in DOMAIN st.insertValues.some.keys |->
                                     <<quoteId(st.insertValues.some.keys[i])>>], Kw(","))
                          \o <<Kw(") VALUES")>> \o rowPlaceholders(st.insertValues.some, 1)
                          \o returningText(st),
                        rowValues(st.insertValues.some))
          [] branch = "update" ->
               LET uv == st.updateValues.some
                   where == buildWhere(st, Len(uv) + 1)
               IN  Returned(<<Kw("UPDATE")>> \o fullTable \o <<Kw("SET")>>
                              \o Join([i \in DOMAIN uv |->
                                         <<quoteId(uv[i].key), Kw("="), Ph(i)>>], Kw(","))
                              \o where.sql \o returningText(st),
                            [i \in DOMAIN uv |-> uv[i].value] \o where.params)
          [] branch = "upsert" ->
               LET keys == st.upsertValues.some.keys
                   conflictCols == st.upsertConflictColumns.some
                   Kept(k) == \A i \in DOMAIN conflictCols : conflictCols[i] # k
                   doConflict ==
                     IF st.upsertIgnoreDuplicates THEN <<Kw("DO NOTHING")>>
                     ELSE <<Kw("DO UPDATE SET")>>
                          \o Join([i \in DOMAIN SelectSeq(keys, Kept) |->
                                     << quoteId(SelectSeq(keys, Kept)[i]), Kw("= EXCLUDED."),
                                        quoteId(SelectSeq(keys, Kept)[i]) >>], Kw(","))
               IN  Returned(<<Kw("INSERT INTO")>> \o fullTable \o <<Kw("(")>>
                              \o Join([i \in DOMAIN keys |-> <<quoteId(keys[i])>>], Kw(","))
                              \o <<Kw(") VALUES")>> \o rowPlaceholders(st.upsertValues.some, 1)
                              \o <<Kw("ON CONFLICT (")>>
                              \o Join([i \in DOMAIN conflictCols |->
                                         <<quoteId(conflictCols[i])>>], Kw(","))
                              \o <<Kw(")")>> \o doConflict \o returningText(st),
                            rowValues(st.upsertValues.some))
          [] branch = "delete" ->
               LET where == buildWhere(st, 1)
               IN  Returned(<<Kw("DELETE FROM")>> \o fullTable \o where.sql
                              \o returningText(st),
                            where.params)
          [] branch = "rpc" ->
               LET args == IF st.rpcArgs = Null THEN <<>> ELSE st.rpcArgs.some
               IN  Returned(<<Kw("SELECT * FROM")>>
                              \o quotedTableSafe(st.schema, st.rpcName.some) \o <<Kw("(")>>
                              \o Join([i \in DOMAIN args |-> <<Ph(i)>>], Kw(","))
                              \o <<Kw(")")>>,
                            args)
          [] OTHER -> Returned(<<>>, <<>>)

(***************************************************************************)
(* The pool and the connections (node-pg), as far as the engine sees them. *)
(***************************************************************************)
\* stmt went out on conn for caller by; ok is how the backend answered it
Sent(conn, stmt, by, ok) ==
    [ev |-> "send", conn |-> conn, stmt |-> stmt, by |-> by, ok |-> ok]
Released(conn, by) ==
    [ev |-> "release", conn |-> conn, stmt |-> "", by |-> by, ok |-> TRUE]
Acquired(conn, by) ==
    [ev |-> "connect", conn |-> conn, stmt |-> "", by |-> by, ok |-> TRUE]

\* the rows of a result: 1, 2, ... n
Rows(n) == [i \in 1..n |-> i]

Response(data, error) == [data |-> data, error |-> error]

\* a policy that always allows one attempt
M_maxAttemptsOf(r) == IF r = Undefined \/ r.attempts < 1 THEN 1 ELSE r.attempts

\* retries?.attempts ?? 1
maxAttemptsOf(r) == IF r = Undefined THEN 1 ELSE r.attempts

\* a loop that sleeps and goes round again after any failure
M_GiveUp(attempt, maxAttempts, err) == attempt = maxAttempts - 1

\* the catch blocks' test: give up, or sleep and go round again
GiveUp(attempt, maxAttempts, err) ==
    attempt = maxAttempts - 1 \/ ~isRetriableError(err)

(***************************************************************************)
(* sqlImpl(text, params, runner): sql(), raw(), healthCheck() and their    *)
(* scoped forms.  sqlRunner is "pool" or the transaction's connection.     *)
(***************************************************************************)
SqlIdle ==
    /\ sqlPc = "idle" /\ sqlRunner = "none" /\ sqlAttempt = 0
    /\ sqlErrs = <<>> /\ sqlResp = Null

\* one turn of the loop: run.query(text, params) and its try/catch
SqlAttempt ==
    /\ sqlPc = "loop"
    /\ sqlAttempt < maxAttemptsOf(retries)
    /\ onQueryLog' = Append(onQueryLog, "SQL")
    /\ \E conn \in (IF sqlRunner = "pool" THEN free ELSE {sqlRunner}) :
       \/ \* the statement runs and returns its rows
          /\ log' = Append(log, Sent(conn, "SQL", "sql", TRUE))
          /\ sqlResp' = Response([rows |-> Rows(1)], Null)
          /\ sqlPc' = "done"
          /\ UNCHANGED <<sqlErrs, onErrorLog>>
       \/ \* the statement is sent and the backend or the socket fails it
          \E err \in Causes :
            LET dbErr == createErrorFromThrown(S_QUERY, "Unknown query error", err)
            IN  /\ log' = Append(log, Sent(conn, "SQL", "sql", FALSE))
                /\ sqlErrs' = Append(sqlErrs, err)
                /\ IF GiveUp(sqlAttempt, maxAttemptsOf(retries), err)
                     THEN /\ onErrorLog' = Append(onErrorLog, dbErr)
                          /\ sqlResp' = Response(Null, dbErr)
                          /\ sqlPc' = "done"
                     ELSE /\ sqlPc' = "backoff"
                          /\ UNCHANGED <<onErrorLog, sqlResp>>
    /\ UNCHANGED <<free, cfgVars, sigVars, sqlRunner, sqlAttempt, txVars, streamVars, exVars, rqVars>>

\* await sleep(backoffMs * 2^attempt); attempt++
SqlBackoff ==
    /\ sqlPc = "backoff"
    /\ sqlAttempt' = sqlAttempt + 1
    /\ sqlPc' = "loop"
    /\ UNCHANGED <<free, log, onErrorLog, onQueryLog, cfgVars, sigVars, sqlRunner, sqlErrs,
                   sqlResp, txVars, streamVars, exVars, rqVars>>

\* the loop ends without a return: "Max retries exceeded"
SqlExhausted ==
    /\ sqlPc = "loop"
    /\ ~(sqlAttempt < maxAttemptsOf(retries))
    /\ sqlResp' = Response(Null,
                     createErrorFromThrown(S_QUERY, "Max retries exceeded",
                                           JsError("Max retries exceeded", FALSE, <<>>)))
    /\ sqlPc' = "done"
    /\ UNCHANGED <<free, log, onErrorLog, onQueryLog, cfgVars, sigVars, sqlRunner, sqlAttempt,
                   sqlErrs, txVars, streamVars, exVars, rqVars>>

(***************************************************************************)
(* QueryBuilder.execute(): the retry loop, the borrow for an abort signal, *)
(* the race with the abort promise, and the runQuery closure, which goes   *)
(* on running after the race is lost.  A backend event and the microtasks  *)
(* it wakes make one step.                                                 *)
(***************************************************************************)
Replied(conn, stmt, by, ok) ==
    [ev |-> "reply", conn |-> conn, stmt |-> stmt, by |-> by, ok |-> ok]
\* cancelPgBackend(client)
Cancelled(conn, by) ==
    [ev |-> "cancel", conn |-> conn, stmt |-> "", by |-> by, ok |-> TRUE]

\* a response that carries a row list whatever else it holds
M_RespC(data, error, count) ==
    [data |-> [rows |-> <<>>], error |-> error, count |-> count]

RespC(data, error, count) == [data |-> data, error |-> error, count |-> count]

ExecIdle ==
    /\ exPc = "idle" /\ exAttempt = 0 /\ exBorrowed = "none" /\ exErrs = <<>>
    /\ exAbort = "none" /\ exResp = Null
    /\ rqPc = "idle" /\ rqConn = "none" /\ rqRows = -1

\* this.ctx.safety?.statementTimeoutMs != null
hasTimeout == safety # Undefined /\ safety.statementTimeoutMs # Undefined

\* a runner chosen without looking at ctx.client
M_runnerOf(borrowed) == IF borrowed # "none" THEN borrowed ELSE "pool"

\* const runner = this.ctx.client ?? borrowedClient ?? this.ctx.pool
runnerOf(borrowed) ==
    IF ctxClient # "none" THEN ctxClient
    ELSE IF borrowed # "none" THEN borrowed ELSE "pool"

\* an execute() that never races its statement against the signal
M_racingOn(borrowed) == FALSE

\* isClientRunner && this.state.abortSignal != null
racingOn(borrowed) == runnerOf(borrowed) # "pool" /\ state.abortSignal # "null"

E_ABORTED == createError(S_QUERY, "Query aborted", Undefined, <<>>)

\* catch (err): the error value execute() reports
caughtError(err) ==
    IF isDbError(err) THEN err
    ELSE createErrorFromThrown(S_QUERY, "Unknown query error", err)

\* finally { if (borrowedClient != null) borrowedClient.release() }
FinallyRelease(borrowed, freeNow, logNow) ==
    IF borrowed # "none"
      THEN /\ free' = freeNow \cup {borrowed}
           /\ log' = Append(logNow, Released(borrowed, "exec"))
      ELSE /\ free' = freeNow
           /\ log' = logNow

\* execute() catches err: it reports it, gives up (and releases) or sleeps
MainCatches(err, borrowed, freeNow, logNow, hookNow) ==
    /\ exErrs' = Append(exErrs, err)
    /\ onErrorLog' = Append(hookNow, caughtError(err))
    /\ IF GiveUp(exAttempt, maxAttemptsOf(retries), err)
         THEN /\ exResp' = RespC(Null, caughtError(err), Undefined)
              /\ exPc' = "done"
              /\ FinallyRelease(borrowed, freeNow, logNow)
         ELSE /\ exPc' = "backoff"
              /\ free' = freeNow
              /\ log' = logNow
              /\ UNCHANGED exResp

\* execute() returns the response runQuery resolved with
MainReturns(resp, borrowed, freeNow, logNow, hookNow) ==
    /\ exResp' = resp
    /\ exPc' = "done"
    /\ onErrorLog' = hookNow
    /\ FinallyRelease(borrowed, freeNow, logNow)
    /\ UNCHANGED exErrs

\* runQuery settles; execute() hears of it only while it still awaits the race
RqSettles(result, freeNow, logNow, hookNow) ==
    IF exPc = "await"
      THEN IF result.ok
             THEN MainReturns(result.resp, exBorrowed, freeNow, logNow, hookNow)
             ELSE MainCatches(result.err, exBorrowed, freeNow, logNow, hookNow)
      ELSE /\ free' = freeNow
           /\ log' = logNow
           /\ onErrorLog' = hookNow
           /\ UNCHANGED <<exPc, exResp, exErrs>>

Resolved(resp) == [ok |-> TRUE, resp |-> resp]
Rejected(err) == [ok |-> FALSE, err |-> err]

\* what the backend or the socket may fail a statement with
ExecCauses == {E_CONN_EXC, E_UNIQUE, E_PLAIN}

\* an execute() that enters its loop without compiling first
M_ExecCompile ==
    /\ exPc = "compile"
    /\ exPc' = "loop"
    /\ UNCHANGED <<free, log, onErrorLog, onQueryLog, cfgVars, sigVars, sqlVars, txVars,
                   streamVars, exAttempt, exBorrowed, exErrs, exAbort, exResp, rqVars>>

\* compile(this.state, this.ctx.safety) and the empty-text test
ExecCompile ==
    /\ exPc = "compile"
    /\ LET thrown == compileThrown(state, safety)
           dbErr == IF isDbError(thrown) THEN thrown
                    ELSE createError(S_VALIDATION,
                           IF thrown.isError THEN thrown.message ELSE "Invalid query",
                           thrown, <<>>)
       IN  IF thrown # NoThrow
             THEN /\ onErrorLog' = Append(onErrorLog, dbErr)
                  /\ exResp' = RespC(Null, dbErr, Undefined)
                  /\ exPc' = "done"
           ELSE IF compileTextEmpty(state)
             THEN /\ exResp' = RespC(Null,
                        createError(S_VALIDATION,
                                    "Invalid query state: missing operation or values",
                                    Undefined, <<>>), Undefined)
                  /\ exPc' = "done"
                  /\ UNCHANGED onErrorLog
           ELSE /\ exPc' = "loop"
                /\ UNCHANGED <<onErrorLog, exResp>>
    /\ UNCHANGED <<free, log, onQueryLog, cfgVars, sigVars, sqlVars, txVars, streamVars,
                   exAttempt, exBorrowed, exErrs, exAbort, rqVars>>

\* the connection a statement sent through runner travels on: pool.query takes an
\* idle one for the time of the statement
carrierOf(runner, freeNow) == IF runner = "pool" THEN freeNow ELSE {runner}
afterSend(runner, conn, freeNow) == IF runner = "pool" THEN freeNow \ {conn} ELSE freeNow
afterReply(runner, conn, freeNow) == IF runner = "pool" THEN freeNow \cup {conn} ELSE freeNow

\* the top of one attempt up to its first await inside runQuery: the borrow for
\* the abort signal, the abort promise, and runQuery's first statement
ExecStartAttempt ==
    /\ exPc = "loop"
    /\ exAttempt < maxAttemptsOf(retries)
    /\ rqPc \in {"idle", "settled"}
    /\ UNCHANGED <<cfgVars, aborted, sqlVars, txVars, streamVars, exAttempt, rqRows>>
    /\ IF state.abortSignal # "null" /\ ctxClient = "none"
         THEN \/ \E err \in ExecCauses :
                   \* pool.connect() rejects
                   /\ exBorrowed' = "none"
                   /\ MainCatches(err, "none", free, log, onErrorLog)
                   /\ UNCHANGED <<onQueryLog, listeners, exAbort, rqPc, rqConn>>
              \/ \E conn \in free :
                   LET runner == runnerOf(conn)
                       free1 == free \ {conn}
                       log1 == Append(log, Acquired(conn, "exec"))
                       log2 == IF aborted THEN Append(log1, Cancelled(runner, "exec"))
                               ELSE log1
                       stmt == IF hasTimeout THEN "SET_TIMEOUT" ELSE "PRIMARY"
                       log3 == Append(log2, Sent(runner, stmt, "exec", TRUE))
                   IN  /\ exBorrowed' = conn
                       /\ rqConn' = runner
                       /\ rqPc' = IF hasTimeout THEN "timeout" ELSE "primary"
                       /\ onQueryLog' = IF hasTimeout THEN onQueryLog
                                        ELSE Append(onQueryLog, "PRIMARY")
                       /\ IF aborted
                            THEN /\ exAbort' = "atStart"
                                 /\ UNCHANGED listeners
                                 /\ MainCatches(E_ABORTED, conn, free1, log3, onErrorLog)
                            ELSE /\ listeners' = Append(listeners, runner)
                                 /\ exPc' = "await"
                                 /\ free' = free1
                                 /\ log' = log3
                                 /\ UNCHANGED <<exAbort, exErrs, exResp, onErrorLog>>
         ELSE /\ exBorrowed' = "none"
              /\ IF hasTimeout /\ runnerOf("none") = "pool"
                   THEN \* runQuery awaits pool.connect() for the timeout
                        /\ rqPc' = "connect"
                        /\ exPc' = "await"
                        /\ UNCHANGED <<free, log, onErrorLog, onQueryLog, listeners,
                                       exAbort, exErrs, exResp, rqConn>>
                   ELSE \E conn \in carrierOf(runnerOf("none"), free) :
                        LET runner == runnerOf("none")
                            racing == racingOn("none")
                            free1 == afterSend(runner, conn, free)
                            log2 == IF racing /\ aborted
                                      THEN Append(log, Cancelled(runner, "exec"))
                                      ELSE log
                            stmt == IF hasTimeout THEN "SET_TIMEOUT" ELSE "PRIMARY"
                            log3 == Append(log2, Sent(conn, stmt, "exec", TRUE))
                        IN  /\ rqConn' = conn
                            /\ rqPc' = IF hasTimeout THEN "timeout" ELSE "primary"
                            /\ onQueryLog' = IF hasTimeout THEN onQueryLog
                                             ELSE Append(onQueryLog, "PRIMARY")
                            /\ IF racing /\ aborted
                                 THEN /\ exAbort' = "atStart"
                                      /\ UNCHANGED listeners
                                      /\ MainCatches(E_ABORTED, "none", free1, log3, onErrorLog)
                                 ELSE /\ listeners' = IF racing THEN Append(listeners, runner)
                                                      ELSE listeners
                                      /\ exPc' = "await"
                                      /\ free' = free1
                                      /\ log' = log3
                                      /\ UNCHANGED <<exAbort, exErrs, exResp, onErrorLog>>

\* the sleep in the catch block ends, the finally block releases, attempt++
ExecBackoff ==
    /\ exPc = "backoff"
    /\ exAttempt' = exAttempt + 1
    /\ exPc' = "loop"
    /\ FinallyRelease(exBorrowed, free, log)
    /\ UNCHANGED <<onErrorLog, onQueryLog, cfgVars, sigVars, sqlVars, txVars, streamVars,
                   exBorrowed, exErrs, exAbort, exResp, rqVars>>

\* the loop ends without a return: "Max retries exceeded"
ExecExhausted ==
    /\ exPc = "loop"
    /\ ~(exAttempt < maxAttemptsOf(retries))
    /\ exResp' = RespC(Null, createError(S_QUERY, "Max retries exceeded", Undefined, <<>>),
                       Undefined)
    /\ exPc' = "done"
    /\ UNCHANGED <<free, log, onErrorLog, onQueryLog, cfgVars, sigVars, sqlVars, txVars, streamVars,
                   exAttempt, exBorrowed, exErrs, exAbort, rqVars>>

\* runQuery's pool.connect() for the statement timeout settles
RqConnect ==
    /\ rqPc = "connect"
    /\ UNCHANGED <<onQueryLog, cfgVars, sigVars, sqlVars, txVars, streamVars, exAttempt, exAbort, rqRows>>
    /\ \/ \E conn \in free :
            /\ exBorrowed' = conn
            /\ rqConn' = conn
            /\ rqPc' = "timeout"
            /\ free' = free \ {conn}
            /\ log' = Append(Append(log, Acquired(conn, "exec")),
                             Sent(conn, "SET_TIMEOUT", "exec", TRUE))
            /\ UNCHANGED <<onErrorLog, exPc, exErrs, exResp>>
       \/ \E err \in ExecCauses :
            /\ rqPc' = "settled"
            /\ RqSettles(Rejected(err), free, log, onErrorLog)
            /\ UNCHANGED <<exBorrowed, rqConn>>

\* what a failing SET LOCAL statement_timeout rejects with
E_SET_LOCAL == JsError("SET LOCAL failed", TRUE, <<"4", "2", "6", "0", "1">>)

\* SET LOCAL statement_timeout is answered (a failure is caught when tolerated); the
\* primary statement goes out on the same runner
RqTimeoutWith(tolerated) ==
    /\ rqPc = "timeout"
    /\ \E ok \in BOOLEAN :
         LET log1 == Append(log, Replied(rqConn, "SET_TIMEOUT", "exec", ok))
         IN  IF ok \/ tolerated
               THEN /\ log' = Append(log1, Sent(rqConn, "PRIMARY", "exec", TRUE))
                    /\ onQueryLog' = Append(onQueryLog, "PRIMARY")
                    /\ rqPc' = "primary"
                    /\ UNCHANGED <<free, onErrorLog, exPc, exErrs, exResp>>
               ELSE /\ rqPc' = "settled"
                    /\ RqSettles(Rejected(E_SET_LOCAL), free, log1, onErrorLog)
                    /\ UNCHANGED onQueryLog
    /\ UNCHANGED <<cfgVars, sigVars, sqlVars, txVars, streamVars, exAttempt, exBorrowed,
                   exAbort, rqConn, rqRows>>

\* a runQuery without the try/catch around SET LOCAL
M_RqTimeoutDone == RqTimeoutWith(FALSE)

RqTimeoutDone == RqTimeoutWith(TRUE)

\* a response that always carries the row list
M_dataOf(n) == [rows |-> Rows(n)]

\* the data of a response built from n rows
dataOf(n) ==
    IF state.single
      THEN IF n = 1 THEN [row |-> 1] ELSE [rows |-> Rows(n)]
    ELSE IF state.maybeSingle
      THEN IF n = 1 THEN [row |-> 1] ELSE IF n = 0 THEN Null ELSE [rows |-> Rows(n)]
    ELSE [rows |-> Rows(n)]

\* the row-shape error of n rows, or NoThrow
shapeError(n) ==
    IF state.single /\ n > 1
      THEN createError(S_PGRST116, "Multiple rows returned for single()", Undefined, <<>>)
    ELSE IF ~state.single /\ state.maybeSingle /\ n > 1
      THEN createError(S_PGRST116, "Multiple rows returned for maybeSingle()",
                       Undefined, <<>>)
    ELSE NoThrow

\* what quotedTableSafe(schema, table) throws, or NoThrow
quotedTableSafeThrown(st) ==
    FirstThrow(<< validateIdentifier(st.schema, "schema"),
                  validateIdentifier(st.table, "table") >>)

\* what compileCount(state, safety) throws, or NoThrow
compileCountThrown(st, sf) ==
    FirstThrow(<< quotedTableSafeThrown(st), buildWhereThrown(st, sf) >>)

\* compileCount(state, safety): what it throws, or the text and the values it returns
compileCount(st, sf) ==
    IF compileCountThrown(st, sf) # NoThrow
      THEN [ok |-> FALSE, thrown |-> compileCountThrown(st, sf),
            text |-> <<>>, values |-> <<>>]
    ELSE [ok |-> TRUE, thrown |-> NoThrow,
          text |-> <<Kw("SELECT COUNT(*)::int AS count FROM")>>
                   \o quotedTableSafe(st.schema, st.table) \o buildWhere(st, 1).sql,
          values |-> buildWhere(st, 1).params]

\* what compileCountEstimated(state, safety) throws, or NoThrow
compileCountEstimatedThrown(st, sf) ==
    IF st.operation # "select" THEN NoThrow
    ELSE FirstThrow(<< quotedTableSafeThrown(st),
                       validateColumnList(IF st.selectColumns = Null THEN <<"*">>
                                          ELSE st.selectColumns.some),
                       buildWhereThrown(st, sf) >>)

\* countOption === "estimated" || countOption === "planned"
useEstimated(st) == st.countOption \in {"estimated", "planned"}

\* runCount sends a statement: a count option on a select whose count text compiles
countRuns ==
    /\ state.countOption # "null"
    /\ state.operation = "select"
    /\ IF useEstimated(state)
         THEN compileCountEstimatedThrown(state, safety) = NoThrow
         ELSE compileCountThrown(state, safety) = NoThrow

\* the rows a count statement may answer with: none, a row that holds the figure
\* ("ok"), or a row from which no figure can be read ("other")
CountRows(n) == {<<>>} \cup {<< [kind |-> k, figure |-> n] >> : k \in {"ok", "other"}}

\* parseEstimatedCount(rows)
parseEstimatedCount(rows) ==
    IF rows = <<>> THEN Null
    ELSE IF rows[1].kind = "ok" THEN Some(rows[1].figure) ELSE Null

\* countRow?.count ?? null
exactCount(rows) ==
    IF rows = <<>> THEN Null
    ELSE IF rows[1].kind = "ok" THEN Some(rows[1].figure) ELSE Null

\* count ?? undefined
countField(count) == IF count = Null THEN Undefined ELSE count

\* the runner runQuery sends on
rqRunner == IF ctxClient = "none" /\ exBorrowed = "none" THEN "pool" ELSE rqConn

\* the primary statement is answered
RqPrimaryDone ==
    /\ rqPc = "primary"
    /\ UNCHANGED <<cfgVars, sigVars, sqlVars, txVars, streamVars, exAttempt, exBorrowed, exAbort>>
    /\ \/ \E err \in ExecCauses :
            /\ rqPc' = "settled"
            /\ RqSettles(Rejected(err), afterReply(rqRunner, rqConn, free),
                         Append(log, Replied(rqConn, "PRIMARY", "exec", FALSE)), onErrorLog)
            /\ UNCHANGED <<onQueryLog, rqConn, rqRows>>
       \/ \E n \in 0..MaxRows :
            LET free1 == afterReply(rqRunner, rqConn, free)
                log1 == Append(log, Replied(rqConn, "PRIMARY", "exec", TRUE))
            IN  /\ rqRows' = n
                /\ IF shapeError(n) # NoThrow
                     THEN /\ rqPc' = "settled"
                          /\ RqSettles(Resolved(RespC(Null, shapeError(n), Undefined)),
                                       free1, log1, Append(onErrorLog, shapeError(n)))
                          /\ UNCHANGED <<onQueryLog, rqConn>>
                   ELSE IF countRuns
                     THEN \E conn \in carrierOf(rqRunner, free1) :
                            /\ rqPc' = "count"
                            /\ rqConn' = conn
                            /\ free' = afterSend(rqRunner, conn, free1)
                            /\ log' = Append(log1, Sent(conn, "COUNT", "exec", TRUE))
                            /\ onQueryLog' = Append(onQueryLog, "COUNT")
                            /\ UNCHANGED <<onErrorLog, exPc, exErrs, exResp>>
                   ELSE /\ rqPc' = "settled"
                        /\ RqSettles(Resolved(RespC(dataOf(n), Null, Undefined)),
                                     free1, log1, onErrorLog)
                        /\ UNCHANGED <<onQueryLog, rqConn>>

\* the count statement is answered; runCount's catch turns a failure into null
\* when swallow is set
RqCountWith(swallow) ==
    /\ rqPc = "count"
    /\ rqPc' = "settled"
    /\ \/ \E rows \in CountRows(rqRows) :
            LET count == IF useEstimated(state) THEN parseEstimatedCount(rows)
                         ELSE exactCount(rows)
            IN  RqSettles(Resolved(RespC(dataOf(rqRows), Null, countField(count))),
                          afterReply(rqRunner, rqConn, free),
                          Append(log, Replied(rqConn, "COUNT", "exec", TRUE)), onErrorLog)
       \/ \E err \in ExecCauses :
            RqSettles(IF swallow
                        THEN Resolved(RespC(dataOf(rqRows), Null, countField(Null)))
                        ELSE Rejected(err),
                      afterReply(rqRunner, rqConn, free),
                      Append(log, Replied(rqConn, "COUNT", "exec", FALSE)), onErrorLog)
    /\ UNCHANGED <<onQueryLog, cfgVars, sigVars, sqlVars, txVars, streamVars, exAttempt, exBorrowed,
                   exAbort, rqConn, rqRows>>

\* a runCount without its try/catch
M_RqCountDone == RqCountWith(FALSE)

RqCountDone == RqCountWith(TRUE)

\* the log after every registered listener has called cancelPgBackend
RECURSIVE CancelAll(_, _)
CancelAll(runners, logNow) ==
    IF runners = <<>> THEN logNow
    ELSE CancelAll(Tail(runners), Append(logNow, Cancelled(Head(runners), "exec")))

\* the caller aborts the signal: every listener cancels its runner and rejects its
\* abort promise, and an execute() awaiting the race catches the rejection
Abort ==
    /\ state # Undefined /\ state.abortSignal # "null"
    /\ ~aborted
    /\ aborted' = TRUE
    /\ listeners' = <<>>
    /\ IF exPc = "await" /\ racingOn(exBorrowed)
         THEN /\ exAbort' = "inFlight"
              /\ MainCatches(E_ABORTED, exBorrowed, free, CancelAll(listeners, log), onErrorLog)
         ELSE /\ log' = CancelAll(listeners, log)
              /\ UNCHANGED <<free, onErrorLog, exPc, exErrs, exAbort, exResp>>
    /\ UNCHANGED <<onQueryLog, cfgVars, sqlVars, txVars, streamVars, exAttempt, exBorrowed, rqVars>>

(***************************************************************************)
(* QueryBuilder.stream(): the call itself, the PgQuery it submits, and the *)
(* async generator a consumer drives with next() and return().             *)
(***************************************************************************)
StreamIdle ==
    /\ stPc = "idle" /\ stResp = Null /\ stClient = "none" /\ stBorrowed = "none"
    /\ closed = FALSE /\ qPc = "none" /\ qEmitted = 0
    /\ genPc = "none" /\ genAttached = FALSE /\ queue = <<>>
    /\ genDone = FALSE /\ genErr = FALSE /\ yielded = <<>>

Iterable == [iterable |-> TRUE]

\* safeInvokeOnQuery; const q = client.query(new PgQuery(...)); return the iterable
StreamSubmit(conn, logNow) ==
    /\ log' = Append(logNow, Sent(conn, "PRIMARY", "stream", TRUE))
    /\ onQueryLog' = Append(onQueryLog, "PRIMARY")
    /\ qPc' = "running"
    /\ genPc' = "suspendedStart"
    /\ stResp' = Response(Iterable, Null)
    /\ stPc' = "done"

\* stream() once it holds its client: the optional SET LOCAL, then the submit
StreamOnClient(conn, logNow) ==
    /\ stClient' = conn
    /\ IF hasTimeout
         THEN /\ log' = Append(logNow, Sent(conn, "SET_TIMEOUT", "stream", TRUE))
              /\ stPc' = "timeout"
              /\ UNCHANGED <<onQueryLog, qPc, genPc, stResp>>
         ELSE StreamSubmit(conn, logNow)

\* stream() up to its first await
StreamCall ==
    /\ stPc = "call"
    /\ UNCHANGED <<cfgVars, sigVars, sqlVars, txVars, exVars, rqVars, stBorrowed, closed,
                   qEmitted, genAttached, queue, genDone, genErr, yielded, free>>
    /\ LET thrown == compileThrown(state, safety)
           dbErr == IF isDbError(thrown) THEN thrown
                    ELSE createError(S_VALIDATION,
                           IF thrown.isError THEN thrown.message ELSE "Invalid query",
                           thrown, <<>>)
       IN  IF state.operation # "select"
             THEN /\ stResp' = Response(Null,
                        createError(S_VALIDATION, "stream() is only valid for select queries",
                                    Undefined, <<>>))
                  /\ stPc' = "done"
                  /\ UNCHANGED <<log, onErrorLog, onQueryLog, stClient, qPc, genPc>>
           ELSE IF thrown # NoThrow
             THEN /\ onErrorLog' = Append(onErrorLog, dbErr)
                  /\ stResp' = Response(Null, dbErr)
                  /\ stPc' = "done"
                  /\ UNCHANGED <<log, onQueryLog, stClient, qPc, genPc>>
           ELSE IF compileTextEmpty(state)
             THEN /\ stResp' = Response(Null,
                        createError(S_VALIDATION,
                                    "Invalid query state: missing operation or values",
                                    Undefined, <<>>))
                  /\ stPc' = "done"
                  /\ UNCHANGED <<log, onErrorLog, onQueryLog, stClient, qPc, genPc>>
           ELSE IF ctxClient # "none"
             THEN /\ StreamOnClient(ctxClient, log)
                  /\ UNCHANGED onErrorLog
           ELSE /\ stPc' = "connect"
                /\ UNCHANGED <<log, onErrorLog, onQueryLog, stResp, stClient, qPc, genPc>>

\* await this.ctx.pool.connect() settles
StreamConnect ==
    /\ stPc = "connect"
    /\ UNCHANGED <<cfgVars, sigVars, sqlVars, txVars, exVars, rqVars, closed,
                   qEmitted, genAttached, queue, genDone, genErr, yielded>>
    /\ \/ \E conn \in free :
            /\ free' = free \ {conn}
            /\ stBorrowed' = conn
            /\ StreamOnClient(conn, Append(log, Acquired(conn, "stream")))
            /\ UNCHANGED onErrorLog
       \/ \E err \in ExecCauses :
            LET dbErr == createErrorFromThrown(S_QUERY, "Unknown query error", err)
            IN  /\ onErrorLog' = Append(onErrorLog, dbErr)
                /\ stResp' = Response(Null, dbErr)
                /\ stPc' = "done"
                /\ UNCHANGED <<free, log, onQueryLog, stClient, stBorrowed, qPc, genPc>>

\* SET LOCAL statement_timeout is answered; a failure is ignored
StreamTimeoutDone ==
    /\ stPc = "timeout"
    /\ \E ok \in BOOLEAN :
         StreamSubmit(stClient, Append(log, Replied(stClient, "SET_TIMEOUT", "stream", ok)))
    /\ UNCHANGED <<free, onErrorLog, cfgVars, sigVars, sqlVars, txVars, exVars, rqVars,
                   stClient, stBorrowed, closed, qEmitted, genAttached, queue, genDone,
                   genErr, yielded>>

\* finally { if (borrowedClient) borrowedClient.release() }
GenFinally ==
    IF stBorrowed # "none"
      THEN /\ free' = free \cup {stBorrowed}
           /\ log' = Append(log, Released(stBorrowed, "stream"))
      ELSE UNCHANGED <<free, log>>

\* the generator body from the loop test to where it next stops
GenLoop(queueNow, doneNow, errNow) ==
    IF ~doneNow \/ Len(queueNow) > 0
      THEN IF Len(queueNow) > 0
             THEN /\ yielded' = Append(yielded, Head(queueNow))
                  /\ queue' = Tail(queueNow)
                  /\ genPc' = "suspendedYield"
                  /\ UNCHANGED <<free, log>>
           ELSE IF errNow
             THEN /\ genPc' = "threw"
                  /\ queue' = queueNow
                  /\ UNCHANGED yielded
                  /\ GenFinally
           ELSE /\ genPc' = "awaiting"
                /\ queue' = queueNow
                /\ UNCHANGED <<yielded, free, log>>
      ELSE /\ genPc' = "completed"
           /\ queue' = queueNow
           /\ UNCHANGED yielded
           /\ GenFinally

\* a listener ran: a pending pull wakes, anything else only sees the new flags
GenNotified(queueNow, doneNow, errNow) ==
    IF genPc = "awaiting"
      THEN GenLoop(queueNow, doneNow, errNow)
      ELSE /\ queue' = queueNow
           /\ UNCHANGED <<genPc, yielded, free, log>>

\* the backend emits "row"; without a listener the row is gone
BackendRow ==
    /\ qPc = "running"
    /\ qEmitted < MaxRows
    /\ qEmitted' = qEmitted + 1
    /\ IF genAttached
         THEN GenNotified(Append(queue, qEmitted + 1), genDone, genErr)
         ELSE UNCHANGED <<queue, genPc, yielded, free, log>>
    /\ UNCHANGED <<onErrorLog, onQueryLog, cfgVars, sigVars, sqlVars, txVars, exVars, rqVars,
                   stVars, qPc, genAttached, genDone, genErr>>

\* the backend emits "end"
BackendEnd ==
    /\ qPc = "running"
    /\ qPc' = "end"
    /\ IF genAttached
         THEN /\ genDone' = TRUE
              /\ GenNotified(queue, TRUE, genErr)
         ELSE UNCHANGED <<genDone, queue, genPc, yielded, free, log>>
    /\ UNCHANGED <<onErrorLog, onQueryLog, cfgVars, sigVars, sqlVars, txVars, exVars, rqVars,
                   stVars, qEmitted, genAttached, genErr>>

\* the backend emits "error" to the generator's listener
BackendError ==
    /\ qPc = "running"
    /\ genAttached
    /\ qPc' = "error"
    /\ genErr' = TRUE
    /\ genDone' = TRUE
    /\ GenNotified(queue, TRUE, TRUE)
    /\ UNCHANGED <<onErrorLog, onQueryLog, cfgVars, sigVars, sqlVars, txVars, exVars, rqVars,
                   stVars, qEmitted, genAttached>>

\* the consumer calls next(): the first call runs the body from its top, which
\* declares queue, done and err and attaches the listeners
Pull ==
    /\ genPc \in {"suspendedStart", "suspendedYield"}
    /\ IF genPc = "suspendedStart"
         THEN /\ genAttached' = TRUE
              /\ GenLoop(<<>>, FALSE, FALSE)
         ELSE /\ UNCHANGED genAttached
              /\ GenLoop(queue, genDone, genErr)
    /\ UNCHANGED <<onErrorLog, onQueryLog, cfgVars, sigVars, sqlVars, txVars, exVars, rqVars,
                   stVars, qVars, genDone, genErr>>

\* the consumer leaves its loop: return() on a generator that never started skips
\* the body and its finally block
Return ==
    /\ genPc \in {"suspendedStart", "suspendedYield"}
    /\ genPc' = "returned"
    /\ IF genPc = "suspendedYield" THEN GenFinally ELSE UNCHANGED <<free, log>>
    /\ UNCHANGED <<onErrorLog, onQueryLog, cfgVars, sigVars, sqlVars, txVars, exVars, rqVars,
                   stVars, qVars, genAttached, queue, genDone, genErr, yielded>>

\* iterable.close(), which returns at once when alreadyClosed
CloseWhen(alreadyClosed) ==
    /\ stResp # Null /\ stResp.data = Iterable
    /\ IF alreadyClosed
         THEN UNCHANGED <<free, log, closed>>
         ELSE /\ closed' = TRUE
              /\ IF stBorrowed # "none"
                   THEN /\ free' = free \cup {stBorrowed}
                        /\ log' = Append(Append(log, Cancelled(stClient, "stream")),
                                         Released(stBorrowed, "close"))
                   ELSE /\ log' = Append(log, Cancelled(stClient, "stream"))
                        /\ UNCHANGED free
    /\ UNCHANGED <<onErrorLog, onQueryLog, cfgVars, sigVars, sqlVars, txVars, exVars, rqVars,
                   stPc, stResp, stClient, stBorrowed, qVars, genVars>>

\* a close() that does not look at its closed flag
M_Close == CloseWhen(FALSE)

\* iterable.close()
Close == CloseWhen(closed)

(***************************************************************************)
(* utils/hooks.ts.  safeInvokeOnQuery and safeInvokeOnError hand a         *)
(* callback to setImmediate and return: onQueryLog and onErrorLog hold the *)
(* calls made, in order.  Each callback runs later as a step of its own,   *)
(* the callbacks of one observer in the order of the calls; the order      *)
(* between an onQuery and an onError callback is left open.                *)
(***************************************************************************)
S_HOOK == <<"H", "O", "O", "K">>

\* what an observer may throw: nothing, an Error, or a value that is no Error
HookThrows == {NoThrow, E_PLAIN, NonError}

\* an observer was invoked with arg and threw or returned
Observed(hook, arg, threw) == [hook |-> hook, arg |-> arg, threw |-> threw]

\* the copy of err that safeInvokeOnError hands to onError: code, message, pgCode
\* and the code of details for what looks like a DbError, err itself otherwise
sanitized(err) ==
    IF err.hasCode /\ err.hasMessage
      THEN [code |-> err.code, message |-> err.message, pgCode |-> err.pgCode,
            details |-> IF err.details # Undefined /\ err.details.hasCode
                          THEN [code |-> err.details.code]
                          ELSE Undefined]
      ELSE err

\* the callback of safeInvokeOnQuery runs: onQuery is invoked; what it throws is
\* handed to onError as a HOOK error, and what onError throws then is caught when
\* contained
HookRunQueryWith(contained) ==
    /\ hooks # Undefined /\ hooks.onQuery
    /\ ranOnQuery < Len(onQueryLog)
    /\ ranOnQuery' = ranOnQuery + 1
    /\ \E thrown \in HookThrows, onErrorThrows \in BOOLEAN :
         LET seen == Observed("onQuery", onQueryLog[ranOnQuery + 1], thrown # NoThrow)
             hookErr == createErrorFromThrown(S_HOOK, "onQuery hook failed", thrown)
         IN  IF thrown = NoThrow \/ ~hooks.onError
               THEN /\ hookSeen' = << seen >>
                    /\ UNCHANGED uncaught
               ELSE /\ hookSeen' = << seen, Observed("onError", hookErr, onErrorThrows) >>
                    /\ uncaught' = (uncaught \/ (onErrorThrows /\ ~contained))
    /\ UNCHANGED <<free, log, onErrorLog, onQueryLog, retries, state, safety, ctxClient,
                   compiled, recompiled, countCompiled, called, outcome, hooks, ranOnError,
                   sigVars, sqlVars, txVars, exVars, rqVars, streamVars>>

\* a callback whose inner try/catch is missing
M_HookRunQuery == HookRunQueryWith(FALSE)

HookRunQuery == HookRunQueryWith(TRUE)

\* the callback of safeInvokeOnError runs: onError is invoked with the sanitized
\* error, and what it throws is caught
HookRunError ==
    /\ hooks # Undefined /\ hooks.onError
    /\ ranOnError < Len(onErrorLog)
    /\ ranOnError' = ranOnError + 1
    /\ \E threw \in BOOLEAN :
         hookSeen' = << Observed("onError", sanitized(onErrorLog[ranOnError + 1]), threw) >>
    /\ UNCHANGED <<free, log, onErrorLog, onQueryLog, retries, state, safety, ctxClient,
                   compiled, recompiled, countCompiled, called, outcome, hooks, ranOnQuery,
                   uncaught, sigVars, sqlVars, txVars, exVars, rqVars, streamVars>>

(***************************************************************************)
(* createClient.transaction(callback)                                      *)
(***************************************************************************)
\* what transaction() itself never touches
TxOthers == <<cfgVars, sigVars, exVars, rqVars, streamVars>>

TxIdle ==
    /\ txPc = "idle" /\ txConn = "none" /\ txErr = Undefined
    /\ txValue = Undefined /\ txCallback = "pending" /\ txStmts = 0 /\ txResp = Null
    /\ txNested = Null

\* conn = await pool.connect(), or the CONNECTION response
TxConnect ==
    /\ txPc = "connect"
    /\ \/ \E conn \in free :
            /\ free' = free \ {conn}
            /\ txConn' = conn
            /\ log' = Append(log, Acquired(conn, "tx"))
            /\ txPc' = "begin"
            /\ UNCHANGED <<onErrorLog, txResp>>
       \/ \E err \in Causes :
            LET dbErr == createErrorFromThrown(S_CONNECTION,
                             "Failed to get connection for transaction", err)
            IN  /\ onErrorLog' = Append(onErrorLog, dbErr)
                /\ txResp' = Response(Null, dbErr)
                /\ txPc' = "done"
                /\ UNCHANGED <<free, log, txConn>>
    /\ UNCHANGED <<onQueryLog, TxOthers, sqlVars, txErr, txValue, txCallback, txStmts, txNested>>

\* await conn.query("BEGIN"), whose rejection reaches the catch block when awaited
TxBeginWith(awaited) ==
    /\ txPc = "begin"
    /\ \/ /\ log' = Append(log, Sent(txConn, "BEGIN", "tx", TRUE))
          /\ txPc' = "callback"
          /\ UNCHANGED txErr
       \/ \E err \in Causes :
            /\ log' = Append(log, Sent(txConn, "BEGIN", "tx", FALSE))
            /\ IF awaited
                 THEN /\ txErr' = err
                      /\ txPc' = "rollback"
                 ELSE /\ txPc' = "callback"
                      /\ UNCHANGED txErr
    /\ UNCHANGED <<free, onErrorLog, onQueryLog, TxOthers, sqlVars, txConn, txNested, txValue, txCallback,
                   txStmts, txResp>>

\* a BEGIN that is sent and not awaited
M_TxBegin == TxBeginWith(FALSE)

TxBegin == TxBeginWith(TRUE)

\* the callback awaits tx.sql(...): sqlImpl with runner = conn
TxCallbackSql ==
    /\ txPc = "callback"
    /\ txStmts < MaxTxStmts
    /\ txStmts' = txStmts + 1
    /\ sqlPc' = "loop"
    /\ sqlRunner' = txConn
    /\ sqlAttempt' = 0
    /\ sqlErrs' = <<>>
    /\ sqlResp' = Null
    /\ txPc' = "awaitSql"
    /\ UNCHANGED <<free, log, onErrorLog, onQueryLog, TxOthers, txConn, txNested, txErr, txValue, txCallback,
                   txResp>>

\* the awaited scoped call settles: it resolves with data or with an error value,
\* or, when raising, rejects with its error and so ends the callback
TxResumeWith(raising) ==
    /\ txPc = "awaitSql"
    /\ sqlPc = "done"
    /\ IF raising /\ sqlResp.error # Null
         THEN /\ txErr' = sqlResp.error
              /\ txCallback' = "threw"
              /\ txPc' = "rollback"
         ELSE /\ txPc' = "callback"
              /\ UNCHANGED <<txErr, txCallback>>
    /\ UNCHANGED <<free, log, onErrorLog, onQueryLog, TxOthers, sqlVars, txConn, txNested,
                   txValue, txStmts, txResp>>

\* a scoped call whose failure is thrown into the callback
M_TxCallbackResume == TxResumeWith(TRUE)

TxCallbackResume == TxResumeWith(FALSE)

\* the callback awaits tx.transaction(cb) on the scoped client: when rejected, the
\* call resolves at once with the VALIDATION response; otherwise it would open a
\* transaction of its own on the connection and run cb
TxNestedCall(rejected) ==
    /\ txPc = "callback"
    /\ txNested = Null
    /\ IF rejected
         THEN /\ txNested' =
                   [resp |-> Response(Null,
                        createError(S_VALIDATION,
                          "Nested transactions are not supported; use savepoints in raw SQL if needed",
                          Undefined, <<>>)),
                    invoked |-> FALSE]
              /\ UNCHANGED log
         ELSE /\ txNested' = [resp |-> Response([value |-> "v1"], Null), invoked |-> TRUE]
              /\ log' = Append(log, Sent(txConn, "BEGIN", "tx", TRUE))
    /\ UNCHANGED <<free, onErrorLog, onQueryLog, TxOthers, sqlVars, txPc, txConn, txErr, txValue,
                   txCallback, txStmts, txResp>>

\* a scoped transaction() that nests
M_TxCallbackNested == TxNestedCall(FALSE)

\* txClient.transaction(_cb)
TxCallbackNested == TxNestedCall(TRUE)

\* the callback's promise fulfils with a value
TxCallbackReturn ==
    /\ txPc = "callback"
    /\ \E v \in {"v1", "v2"} : txValue' = [value |-> v]
    /\ txCallback' = "returned"
    /\ txPc' = "commit"
    /\ UNCHANGED <<free, log, onErrorLog, onQueryLog, TxOthers, sqlVars, txConn, txNested, txErr, txStmts, txResp>>

\* the callback throws or its promise rejects
TxCallbackThrow ==
    /\ txPc = "callback"
    /\ \E err \in Causes : txErr' = err
    /\ txCallback' = "threw"
    /\ txPc' = "rollback"
    /\ UNCHANGED <<free, log, onErrorLog, onQueryLog, TxOthers, sqlVars, txConn, txNested, txValue, txStmts, txResp>>

\* await conn.query("COMMIT"); return { data: value, error: null }
TxCommit ==
    /\ txPc = "commit"
    /\ \/ /\ log' = Append(log, Sent(txConn, "COMMIT", "tx", TRUE))
          /\ txResp' = Response(txValue, Null)
          /\ txPc' = "finally"
          /\ UNCHANGED txErr
       \/ \E err \in Causes :
            /\ log' = Append(log, Sent(txConn, "COMMIT", "tx", FALSE))
            /\ txErr' = err
            /\ txPc' = "rollback"
            /\ UNCHANGED txResp
    /\ UNCHANGED <<free, onErrorLog, onQueryLog, TxOthers, sqlVars, txConn, txNested, txValue, txCallback, txStmts>>

\* the message of the TRANSACTION error
TxMessage(err) == IF err.isError THEN err.message ELSE "Transaction failed"

\* what a failing ROLLBACK rejects with
E_ROLLBACK == JsError("rollback failed", TRUE, <<"2", "5", "P", "0", "1">>)

\* catch (err): stmt is sent, its own failure is caught when contained, then the
\* TRANSACTION response is built from err
TxCatch(stmt, contained) ==
    /\ txPc = "rollback"
    /\ \E ok \in BOOLEAN :
         LET reported == IF ok \/ contained THEN txErr ELSE E_ROLLBACK
             dbErr == createError(S_TRANSACTION, TxMessage(reported), reported, <<>>)
         IN  /\ log' = Append(log, Sent(txConn, stmt, "tx", ok))
             /\ onErrorLog' = Append(onErrorLog, dbErr)
             /\ txResp' = Response(Null, dbErr)
    /\ txPc' = "finally"
    /\ UNCHANGED <<free, onQueryLog, TxOthers, sqlVars, txConn, txNested, txErr, txValue, txCallback, txStmts>>

M_TxRollback == TxCatch("COMMIT", TRUE)

\* a catch block whose ROLLBACK failure replaces err
M_TxRollbackMasks == TxCatch("ROLLBACK", FALSE)

TxRollback == TxCatch("ROLLBACK", TRUE)

\* conn.release() when doIt, then the call resolves with the response already built
TxSettle(doIt) ==
    /\ txPc = "finally"
    /\ IF doIt
         THEN /\ free' = free \cup {txConn}
              /\ log' = Append(log, Released(txConn, "tx"))
         ELSE UNCHANGED <<free, log>>
    /\ txPc' = "done"
    /\ UNCHANGED <<onErrorLog, onQueryLog, TxOthers, sqlVars, txConn, txNested, txErr, txValue, txCallback,
                   txStmts, txResp>>

M_TxRelease == TxSettle(txErr = Undefined)

\* finally { conn.release() }
TxRelease == TxSettle(TRUE)

(***************************************************************************)
(* SpecTx: one client.transaction(callback) call on a fresh client.        *)
(***************************************************************************)
RetryConfigs == {Undefined} \cup {[attempts |-> n] : n \in (-1)..MaxAttempts}

InitTx ==
    /\ free = Conns
    /\ log = <<>>
    /\ onErrorLog = <<>>
    /\ onQueryLog = <<>>
    /\ retries \in RetryConfigs
    /\ state = Undefined /\ safety = Undefined /\ ctxClient = "none"
    /\ aborted = FALSE /\ listeners = <<>>
    /\ ExecIdle
    /\ StreamIdle
    /\ SqlIdle
    /\ txPc = "connect" /\ txConn = "none" /\ txErr = Undefined
    /\ txValue = Undefined /\ txCallback = "pending" /\ txStmts = 0 /\ txResp = Null
    /\ txNested = Null
    /\ compiled = Null /\ NoCalls /\ NoHooks

NextTx ==
    \/ TxConnect \/ TxBegin
    \/ TxCallbackSql \/ SqlAttempt \/ SqlBackoff \/ SqlExhausted \/ TxCallbackResume
    \/ TxCallbackNested \/ TxCallbackReturn \/ TxCallbackThrow
    \/ TxCommit \/ TxRollback \/ TxRelease

SpecTx == InitTx /\ [][NextTx]_vars

(***************************************************************************)
(* SpecCall: one call on a client, execute() or stream() of one builder    *)
(* or one sql(), on the pool or inside a transaction holding connection c1.*)
(***************************************************************************)
S_public == <<"p", "u", "b", "l", "i", "c">>
S_users == <<"u", "s", "e", "r", "s">>
S_id == <<"i", "d">>

\* from("users").select().eq("id", 1)
SelectById ==
    [createInitialState(S_users, S_public)
        EXCEPT !.filters = << Filter("eq", S_id, [scalar |-> 1]) >>]

\* the builders whose statement compiles
GoodStates ==
    { [SelectById EXCEPT !.single = sg, !.maybeSingle = ms,
                         !.countOption = co, !.abortSignal = ab] :
        sg \in BOOLEAN, ms \in BOOLEAN,
        co \in {"null", "exact", "estimated"}, ab \in {"null", "signal"} }
    \cup
    { [SelectById EXCEPT !.operation = "insert",
                         !.insertValues = Some([rows |-> 1, keys |-> <<S_id>>]),
                         !.countOption = "exact"] }

\* the builders compile rejects
BadStates ==
    { \* eq('id;', 1)
      [SelectById EXCEPT !.filters = << Filter("eq", <<"i", "d", ";">>, [scalar |-> 1]) >>,
                         !.abortSignal = "signal"],
      \* in("id", [1, 2, 3]), over a configured maxInElements of 2
      [SelectById EXCEPT !.filters = << Filter("in", S_id, [arr |-> <<1, 2, 3>>]) >>],
      \* insert of 5001 one-column rows
      [SelectById EXCEPT !.operation = "insert",
                         !.insertValues = Some([rows |-> DEFAULT_MAX_TOTAL_PARAMS + 1,
                                                keys |-> <<S_id>>])],
      \* insert([])
      [SelectById EXCEPT !.operation = "insert",
                         !.insertValues = Some([rows |-> 0, keys |-> <<>>])],
      \* upsert(values, { onConflict: [] })
      [SelectById EXCEPT !.operation = "upsert",
                         !.upsertValues = Some([rows |-> 1, keys |-> <<S_id>>]),
                         !.upsertConflictColumns = Some(<<>>)] }

SafetyConfigs ==
    { Undefined,
      [maxInElements |-> Some(2), statementTimeoutMs |-> Some(5000)] }

\* a builder that is no select
NonSelectState ==
    [SelectById EXCEPT !.operation = "insert",
                       !.insertValues = Some([rows |-> 1, keys |-> <<S_id>>])]

CallStart ==
    /\ free = Conns \ {ctxClient}
    /\ log = <<>>
    /\ onErrorLog = <<>>
    /\ onQueryLog = <<>>
    /\ retries \in RetryConfigs
    /\ listeners = <<>>
    /\ compiled = Null /\ NoCalls
    /\ TxIdle

\* builder.execute()
InitExecute ==
    /\ ctxClient \in {"none", "c1"}
    /\ state \in GoodStates \cup BadStates
    /\ safety \in SafetyConfigs
    /\ aborted \in {FALSE, state.abortSignal # "null"}
    /\ SqlIdle
    /\ StreamIdle
    /\ exPc = "compile" /\ exAttempt = 0 /\ exBorrowed = "none" /\ exErrs = <<>>
    /\ exAbort = "none" /\ exResp = Null
    /\ rqPc = "idle" /\ rqConn = "none" /\ rqRows = -1

\* db.sql`...`
InitSql ==
    /\ ctxClient \in {"none", "c1"}
    /\ state = Undefined /\ safety = Undefined /\ aborted = FALSE
    /\ ExecIdle
    /\ StreamIdle
    /\ sqlPc = "loop" /\ sqlAttempt = 0
    /\ sqlRunner = (IF ctxClient = "none" THEN "pool" ELSE ctxClient)
    /\ sqlErrs = <<>> /\ sqlResp = Null

\* builder.stream()
InitStream ==
    /\ ctxClient \in {"none", "c1"}
    /\ state \in {SelectById, NonSelectState} \cup BadStates
    /\ safety \in SafetyConfigs
    /\ aborted = FALSE
    /\ SqlIdle
    /\ ExecIdle
    /\ stPc = "call" /\ stResp = Null /\ stClient = "none" /\ stBorrowed = "none"
    /\ closed = FALSE /\ qPc = "none" /\ qEmitted = 0
    /\ genPc = "none" /\ genAttached = FALSE /\ queue = <<>>
    /\ genDone = FALSE /\ genErr = FALSE /\ yielded = <<>>

InitCall == (InitExecute \/ InitSql \/ InitStream) /\ CallStart /\ NoHooks

NextCall ==
    \/ ExecCompile \/ ExecStartAttempt \/ ExecBackoff \/ ExecExhausted
    \/ RqConnect \/ RqTimeoutDone \/ RqPrimaryDone \/ RqCountDone
    \/ Abort
    \/ SqlAttempt \/ SqlBackoff \/ SqlExhausted
    \/ StreamCall \/ StreamConnect \/ StreamTimeoutDone
    \/ BackendRow \/ BackendEnd \/ BackendError
    \/ Pull \/ Return \/ Close

SpecCall == InitCall /\ [][NextCall]_vars

(***************************************************************************)
(* SpecClient: one public call on a fresh client, any of transaction(),    *)
(* execute(), sql() and stream().                                          *)
(***************************************************************************)
InitClient == InitTx \/ InitCall

NextClient == NextTx \/ NextCall

SpecClient == InitClient /\ [][NextClient]_vars

(***************************************************************************)
(* SpecHooks: one call on a client created with hooks, whose observers may *)
(* throw whenever they are invoked.                                        *)
(***************************************************************************)
\* ClientOptions.hooks with either observer set or missing
HookConfigs == {[onQuery |-> q, onError |-> e] : q, e \in BOOLEAN}

\* the retry options of the observed call: no attempt at all, or one retry
HookRetries == {[attempts |-> 0], [attempts |-> 2]}

\* the builders of the observed call (Undefined for sql()): a plain select, one with
\* a count, one with single() and an abort signal, and one that compile rejects
HookStates ==
    { Undefined,
      SelectById,
      [SelectById EXCEPT !.countOption = "exact"],
      [SelectById EXCEPT !.single = TRUE, !.abortSignal = "signal"],
      [SelectById EXCEPT !.filters = << Filter("in", S_id, [arr |-> <<1, 2, 3>>]) >>] }

InitHooks ==
    /\ (InitExecute \/ InitSql \/ InitStream) /\ CallStart
    /\ retries \in HookRetries
    /\ ctxClient = "none"
    /\ state \in HookStates
    /\ (state # Undefined /\ state.abortSignal # "null") => (safety = Undefined /\ ~aborted)
    /\ hooks \in HookConfigs
    /\ ranOnQuery = 0 /\ ranOnError = 0 /\ hookSeen = <<>> /\ uncaught = FALSE

NextHooks == NextCall \/ HookRunQuery \/ HookRunError

SpecHooks == InitHooks /\ [][NextHooks]_vars

(***************************************************************************)
(* compile(state, safety) on the builder states the chainable methods      *)
(* leave behind.                                                           *)
(***************************************************************************)
\* filters one builder carries at most
MaxFilters == 2

S_name == <<"n", "a", "m", "e">>

\* the filters the filter methods push
FilterInputs ==
    { \* eq("id", 1)
      Filter("eq", S_id, [scalar |-> 1]),
      \* in("id", [1, 2])
      Filter("in", S_id, [arr |-> <<1, 2>>]),
      \* or([{ column: "id", op: "eq", value: 1 }, { column: "name", op: "gt", value: 2 }])
      [Filter("or", <<>>, Undefined) EXCEPT
          !.orFilters = << [column |-> S_id, op |-> "eq", value |-> [scalar |-> 1]],
                           [column |-> S_name, op |-> "gt", value |-> [scalar |-> 2]] >>],
      \* or([])
      Filter("or", <<>>, Undefined),
      \* match({ id: 1 })
      [Filter("match", <<>>, Undefined) EXCEPT
          !.matchRecord = << [key |-> S_id, value |-> [scalar |-> 1]] >>],
      \* match({})
      Filter("match", <<>>, Undefined),
      \* not("id", "eq", 1)
      [Filter("not", S_id, [scalar |-> 1]) EXCEPT !.notOperator = "eq"],
      \* textSearch("name", "x")
      Filter("textSearch", S_name, [text |-> "x"]) }

FilterLists == UNION { [1..n -> FilterInputs] : n \in 0..MaxFilters }

\* the column lists select() and selectReturn() are given
ColumnInputs ==
    { Null,                                          \* none given
      Some(S_id \o <<",", " ">> \o S_name),         \* "id, name"
      Some(S_id \o <<",", ",">> \o S_name),         \* "id,,name"
      Some(<<" ", "*">>) }                           \* " *"

\* in("id", [1, ..., n]) and notIn("id", [1, ..., n]) around the configured and the
\* default limit
InListInputs ==
    { [createInitialState(S_users, S_public) EXCEPT
          !.filters = << Filter(type, S_id, [arr |-> [i \in 1..n |-> i]]) >>] :
        type \in {"in", "notIn"},
        n \in {2, 3, DEFAULT_MAX_IN_ELEMENTS, DEFAULT_MAX_IN_ELEMENTS + 1} }

\* the builder states compile is applied to
CompileInputs ==
    { [createInitialState(S_users, S_public) EXCEPT
          !.selectColumns = cols, !.filters = fs] :
        cols \in ColumnInputs, fs \in FilterLists }
    \cup
    { [createInitialState(S_users, S_public) EXCEPT
          !.filters = fs, !.orderBy = ob,
          !.limitCount = pg.limit, !.rangeFrom = pg.from, !.rangeTo = pg.to,
          !.single = pg.single] :
        fs \in FilterLists,
        ob \in { <<>>, << [column |-> S_name, ascending |-> FALSE,
                           nullsFirst |-> "undefined"] >> },
        pg \in { [limit |-> Null, from |-> Null, to |-> Null, single |-> FALSE],
                 [limit |-> Some(5), from |-> Null, to |-> Null, single |-> FALSE],
                 [limit |-> Null, from |-> Some(0), to |-> Some(9), single |-> FALSE],
                 [limit |-> Null, from |-> Null, to |-> Null, single |-> TRUE],
                 \* limit(7).single(), and range(5, 5).limit(7).single()
                 [limit |-> Some(7), from |-> Null, to |-> Null, single |-> TRUE],
                 [limit |-> Some(7), from |-> Some(5), to |-> Some(5), single |-> TRUE] } }
    \cup
    { [createInitialState(S_users, S_public) EXCEPT
          !.operation = "insert", !.returnSelect = cols,
          !.insertValues = Some([rows |-> n, keys |-> <<S_id, S_name>>])] :
        cols \in ColumnInputs, n \in 1..3 }
    \cup
    { [createInitialState(S_users, S_public) EXCEPT
          !.operation = "update", !.returnSelect = cols, !.filters = fs,
          !.updateValues = Some(<< [key |-> S_name, value |-> [scalar |-> 1]] >>)] :
        cols \in {Null, Some(<<"*">>)}, fs \in FilterLists }
    \cup
    { [createInitialState(S_users, S_public) EXCEPT
          !.operation = "upsert", !.upsertIgnoreDuplicates = ign,
          !.upsertValues = Some([rows |-> n, keys |-> <<S_id, S_name>>]),
          !.upsertConflictColumns = Some(cc)] :
        ign \in BOOLEAN, n \in 1..3, cc \in {<<S_id>>, <<S_id, S_name>>} }
    \cup
    { [createInitialState(S_users, S_public) EXCEPT
          !.operation = "delete", !.filters = fs] : fs \in FilterLists }
    \cup
    { [createInitialState(S_name, S_public) EXCEPT
          !.operation = "rpc", !.rpcName = Some(S_name), !.rpcArgs = Some(args)] :
        args \in { <<>>, << [scalar |-> 1], [scalar |-> 2] >> } }
    \cup InListInputs
    \cup BadStates

\* the safety options compile is given: those of SafetyConfigs, or a cap of 4 on the
\* parameters of one statement
CompileSafety ==
    SafetyConfigs
    \cup { [maxInElements |-> Undefined, statementTimeoutMs |-> Undefined,
            maxTotalParams |-> Some(4)] }

InitCompile ==
    /\ state \in CompileInputs
    /\ safety \in CompileSafety
    /\ compiled = Null /\ NoCalls /\ NoHooks
    /\ free = Conns /\ log = <<>> /\ onErrorLog = <<>> /\ onQueryLog = <<>>
    /\ retries = Undefined /\ ctxClient = "none"
    /\ aborted = FALSE /\ listeners = <<>>
    /\ ExecIdle /\ StreamIdle /\ SqlIdle /\ TxIdle

\* compile(state, safety)
Compile ==
    /\ compiled = Null
    /\ state # Undefined
    /\ compiled' = compile(state, safety)
    /\ UNCHANGED <<free, log, onErrorLog, onQueryLog, retries, state, safety, ctxClient,
                   recompiled, countCompiled, called, outcome, hookVars,
                   sigVars, sqlVars, txVars, exVars, rqVars, streamVars>>

\* compile(state, safety) once more on the same builder; with carried set, the values
\* array outlives the call
RecompileWith(carried) ==
    /\ compiled # Null
    /\ recompiled = Null
    /\ recompiled' = IF carried
                       THEN [compile(state, safety) EXCEPT !.values = compiled.values \o @]
                       ELSE compile(state, safety)
    /\ UNCHANGED <<free, log, onErrorLog, onQueryLog, retries, state, safety, ctxClient,
                   compiled, countCompiled, called, outcome, hookVars,
                   sigVars, sqlVars, txVars, exVars, rqVars, streamVars>>

M_Recompile == RecompileWith(TRUE)

Recompile == RecompileWith(FALSE)

\* compileCount(state, safety), after the statement itself compiled
CompileCount ==
    /\ recompiled # Null
    /\ compiled.ok
    /\ countCompiled = Null
    /\ countCompiled' = compileCount(state, safety)
    /\ UNCHANGED <<free, log, onErrorLog, onQueryLog, retries, state, safety, ctxClient,
                   compiled, recompiled, called, outcome, hookVars,
                   sigVars, sqlVars, txVars, exVars, rqVars, streamVars>>

NextCompile == Compile \/ Recompile \/ CompileCount

SpecCompile == InitCompile /\ [][NextCompile]_vars

(***************************************************************************)
(* The chainable builder: client.from() / client.rpc() construct it, each  *)
(* method mutates its state and returns it.  called counts the public      *)
(* calls and names the last one; outcome is what that call threw.          *)
(***************************************************************************)
\* chained calls made on one builder at most
MaxCalls == 3

\* validateLimit(count), the model's numbers being integers
validateLimit(count) ==
    IF count < 0
      THEN createError(S_VALIDATION, "Invalid limit: must be a non-negative integer",
                       Undefined, <<>>)
      ELSE NoThrow

\* validateRange(from, to), the model's numbers being integers; the last message has
\* the sign for "at most" where this one spells <=
validateRange(from, to) ==
    IF from < 0
      THEN createError(S_VALIDATION, "Invalid range: from must be a non-negative integer",
                       Undefined, <<>>)
    ELSE IF to < 0
      THEN createError(S_VALIDATION, "Invalid range: to must be a non-negative integer",
                       Undefined, <<>>)
    ELSE IF from > to
      THEN createError(S_VALIDATION, "Invalid range: from must be <= to", Undefined, <<>>)
    ELSE NoThrow

\* everything but the builder's state and the record of the call
BuilderOthers ==
    <<free, log, onErrorLog, onQueryLog, retries, safety, ctxClient, compiled, recompiled,
      countCompiled, hookVars, sigVars, sqlVars, txVars, exVars, rqVars, streamVars>>

\* a chained call of method: it throws thrown and leaves the state alone, or returns
\* with the state next
Chained(method, thrown, next) ==
    /\ state # Undefined
    /\ called.n < 1 + MaxCalls
    /\ called' = [n |-> called.n + 1, method |-> method]
    /\ outcome' = thrown
    /\ state' = IF thrown = NoThrow THEN next ELSE state
    /\ UNCHANGED BuilderOthers

\* new QueryBuilder(table, schema, ctx), from client.from(table)
From ==
    \E table \in {S_users, <<"i", "d", ";">>} :
        LET thrown == FirstThrow(<< validateIdentifier(S_public, "schema"),
                                    validateIdentifier(table, "table") >>)
        IN  /\ called = Null
            /\ called' = [n |-> 1, method |-> "from"]
            /\ outcome' = thrown
            /\ state' = IF thrown = NoThrow THEN createInitialState(table, S_public)
                        ELSE state
            /\ UNCHANGED BuilderOthers

\* select(columns, options); with resets set, select() makes itself the operation
BuilderSelectWith(resets) ==
    \E columns \in {<<"*">>, S_id} :
        Chained("select", NoThrow,
                IF resets THEN [state EXCEPT !.operation = "select",
                                             !.selectColumns = Some(columns)]
                ELSE IF state.operation \in {"select", "rpc"}
                  THEN [state EXCEPT !.selectColumns = Some(columns)]
                ELSE [state EXCEPT !.returnSelect = Some(columns)])

M_BuilderSelect == BuilderSelectWith(TRUE)

BuilderSelect == BuilderSelectWith(FALSE)

\* insert(values)
BuilderInsert ==
    Chained("insert", NoThrow,
            [state EXCEPT !.operation = "insert",
                          !.insertValues = Some([rows |-> 1, keys |-> <<S_id>>])])

\* update(values)
BuilderUpdate ==
    Chained("update", NoThrow,
            [state EXCEPT !.operation = "update",
                          !.updateValues =
                              Some(<< [key |-> S_name, value |-> [scalar |-> 1]] >>)])

\* upsert(values, { onConflict: "id" })
BuilderUpsert ==
    Chained("upsert", NoThrow,
            [state EXCEPT !.operation = "upsert",
                          !.upsertValues = Some([rows |-> 1, keys |-> <<S_id, S_name>>]),
                          !.upsertConflictColumns = Some(ColumnParts(S_id)),
                          !.upsertIgnoreDuplicates = FALSE])

\* delete()
BuilderDelete == Chained("delete", NoThrow, [state EXCEPT !.operation = "delete"])

\* rpc(fn, args)
BuilderRpc ==
    Chained("rpc", NoThrow,
            [state EXCEPT !.operation = "rpc", !.rpcName = Some(S_name),
                          !.rpcArgs = Some(<<>>)])

\* eq(), or() and the other filter methods: this.state.filters.push(...)
BuilderFilter ==
    \E f \in {Filter("eq", S_id, [scalar |-> 1]), Filter("or", <<>>, Undefined)} :
        Chained("filter", NoThrow, [state EXCEPT !.filters = Append(@, f)])

\* order(column, { ascending: false })
BuilderOrder ==
    Chained("order", NoThrow,
            [state EXCEPT !.orderBy = Append(@, [column |-> S_name, ascending |-> FALSE,
                                                  nullsFirst |-> "undefined"])])

\* limit(count)
BuilderLimit ==
    \E count \in {5, -1} :
        Chained("limit", validateLimit(count), [state EXCEPT !.limitCount = Some(count)])

\* range(from, to)
BuilderRange ==
    \E from \in {0, 9} :
        Chained("range", validateRange(from, 9 - from),
                [state EXCEPT !.rangeFrom = Some(from), !.rangeTo = Some(9 - from)])

\* single()
BuilderSingle == Chained("single", NoThrow, [state EXCEPT !.single = TRUE])

\* maybeSingle()
BuilderMaybeSingle == Chained("maybeSingle", NoThrow, [state EXCEPT !.maybeSingle = TRUE])

\* abortSignal(signal)
BuilderAbortSignal ==
    Chained("abortSignal", NoThrow, [state EXCEPT !.abortSignal = "signal"])

InitBuilder ==
    /\ state = Undefined /\ safety = Undefined
    /\ compiled = Null /\ NoCalls /\ NoHooks
    /\ free = Conns /\ log = <<>> /\ onErrorLog = <<>> /\ onQueryLog = <<>>
    /\ retries = Undefined /\ ctxClient = "none"
    /\ aborted = FALSE /\ listeners = <<>>
    /\ ExecIdle /\ StreamIdle /\ SqlIdle /\ TxIdle

NextBuilder ==
    \/ From
    \/ BuilderSelect \/ BuilderInsert \/ BuilderUpdate \/ BuilderUpsert \/ BuilderDelete
    \/ BuilderRpc \/ BuilderFilter \/ BuilderOrder \/ BuilderLimit \/ BuilderRange
    \/ BuilderSingle \/ BuilderMaybeSingle \/ BuilderAbortSignal

SpecBuilder == InitBuilder /\ [][NextBuilder]_vars

(***************************************************************************)
(* The exported helpers validateIdentifier and isRetriableError, called    *)
(* on their own.                                                           *)
(***************************************************************************)
\* longest name built from NameChars
MaxNameLen == 3

\* a letter of each case, a digit, the underscore, and two characters outside the grammar
NameChars == {"a", "Z", "7", "_", "-", " "}

\* the names validateIdentifier is given: every string over NameChars up to
\* MaxNameLen characters, and names at and around the longest PostgreSQL allows
Names ==
    UNION { [1..n -> NameChars] : n \in 0..MaxNameLen }
    \cup { [i \in 1..n |-> "a"] : n \in {62, 63, 64, 65} }
    \cup { [i \in 1..n |-> IF i = n THEN "-" ELSE "a"] : n \in {63, 64} }

\* the causes isRetriableError is given: error objects with a string code, with no
\* code, with a code that is no string, a thrown non-Error, null and undefined
CauseInputs ==
    { JsError("failed", TRUE, code) :
        code \in RETRIABLE_NODE_CODES
                 \cup { <<"0", "8", "0", "0", "6">>, <<"0", "8">>, <<"4", "0", "P", "0", "1">>,
                        <<"4", "0", "0", "0", "1">>, <<"2", "3", "5", "0", "5">>,
                        <<"2", "3", "5", "0", "3">>, <<"0">>, <<"8", "0", "0", "0", "6">>,
                        <<"4", "2", "P", "0", "1">>, <<"X", "0", "8">>,
                        <<"e", "p", "i", "p", "e">>, <<"E", "P", "I", "P", "E", "S">>,
                        <<>>} }
    \cup { E_PLAIN, NonError, Null, Undefined }

HelperOthers ==
    <<free, log, onErrorLog, onQueryLog, retries, state, safety, ctxClient, compiled,
      recompiled, countCompiled, hookVars, sigVars, sqlVars, txVars, exVars, rqVars,
      streamVars>>

\* validateIdentifier(name, kind)
ValidateIdentifier ==
    \E name \in Names, kind \in {"table", "column"} :
        /\ called = Null
        /\ called' = [n |-> 1, method |-> "validateIdentifier", name |-> name,
                      kind |-> kind]
        /\ outcome' = validateIdentifier(name, kind)
        /\ UNCHANGED HelperOthers

\* isRetriableError(cause)
IsRetriableError ==
    \E cause \in CauseInputs :
        /\ called = Null
        /\ called' = [n |-> 1, method |-> "isRetriableError", cause |-> cause]
        /\ outcome' = IF isRetriableErrorThrown(cause) # NoThrow
                        THEN isRetriableErrorThrown(cause)
                        ELSE [returned |-> isRetriableError(cause)]
        /\ UNCHANGED HelperOthers

NextHelpers == ValidateIdentifier \/ IsRetriableError

SpecHelpers == InitBuilder /\ [][NextHelpers]_vars

(***************************************************************************)
(* Claims about transaction()                                              *)
(***************************************************************************)
CodeOf(e) == IF e = Null THEN <<>> ELSE e.code

TxSent(stmt) == {i \in 1..Len(log) : log[i] = Sent(txConn, stmt, "tx", TRUE)
                                     \/ log[i] = Sent(txConn, stmt, "tx", FALSE)}
TxSentOk(stmt) == {i \in 1..Len(log) : log[i] = Sent(txConn, stmt, "tx", TRUE)}
TxReleases == {i \in 1..Len(log) : log[i].ev = "release"}

\* C1: a transaction() call that acquired its connection and whose BEGIN succeeded:
\* when the callback returned and COMMIT succeeded, COMMIT went out on that
\* connection, ROLLBACK never did, and the call resolves with {data: the callback's
\* value, error: null}; when the callback failed, ROLLBACK went out on that
\* connection, COMMIT never did, and the call resolves with data null and an error
\* of code TRANSACTION.
C1_CommitOrRollback ==
    (txPc = "done" /\ txConn # "none" /\ TxSentOk("BEGIN") # {}) =>
        /\ (txCallback = "returned" /\ TxSentOk("COMMIT") # {}) =>
              /\ Cardinality(TxSent("COMMIT")) = 1
              /\ TxSent("ROLLBACK") = {}
              /\ txResp = Response(txValue, Null)
        /\ txCallback = "threw" =>
              /\ Cardinality(TxSent("ROLLBACK")) = 1
              /\ TxSent("COMMIT") = {}
              /\ txResp.data = Null
              /\ CodeOf(txResp.error) = S_TRANSACTION

C1_Witness ==
    /\ txPc = "done" /\ txCallback = "threw" /\ TxSentOk("BEGIN") # {}
    /\ txResp.data = Null

\* C2: whatever the outcome once the connection was acquired (BEGIN, the callback,
\* COMMIT or ROLLBACK failing, or success) the connection is released exactly once,
\* after the last BEGIN/COMMIT/ROLLBACK went out on it; when acquiring fails,
\* nothing is released.
C2_ReleasedOnce ==
    /\ Cardinality(TxReleases) <= 1
    /\ txPc = "done" =>
         IF txConn = "none"
           THEN TxReleases = {} /\ free = Conns
           ELSE /\ Cardinality(TxReleases) = 1
                /\ \A r \in TxReleases :
                     /\ log[r] = Released(txConn, "tx")
                     /\ \A i \in TxSent("BEGIN") \cup TxSent("COMMIT")
                                 \cup TxSent("ROLLBACK") : i < r
                /\ free = Conns

C2_Witness ==
    /\ txPc = "done"
    /\ \E i \in TxSent("ROLLBACK") : ~log[i].ok
    /\ TxReleases # {}

(***************************************************************************)
(* Claims about execute(), sql() and stream(), checked under SpecCall.     *)
(***************************************************************************)
Last(seq) == seq[Len(seq)]
\* the primary statements execute() has sent
PrimarySends ==
    {i \in 1..Len(log) : log[i].ev = "send" /\ log[i].stmt = "PRIMARY" /\ log[i].by = "exec"}
\* the statements sql() has sent
SqlSends == {i \in 1..Len(log) : log[i].ev = "send" /\ log[i].by = "sql"}
\* every failure that was followed by another attempt
AllButLastRetriable(errs) == \A i \in 1..(Len(errs) - 1) : isRetriableError(errs[i])

\* C3: under a retry policy of A >= 1 attempts (1 without a policy), execute() and
\* sql() send the primary statement at most A times; an attempt follows another only
\* when that one failed with a cause isRetriableError accepts; a non-retriable
\* failure, or the failure of attempt A, resolves the call with that attempt's error;
\* a successful attempt resolves the call and nothing further is sent.
C3_RetryPolicy ==
    maxAttemptsOf(retries) >= 1 =>
      LET A == maxAttemptsOf(retries) IN
      /\ Cardinality(PrimarySends) <= A
      /\ Cardinality(PrimarySends) <= exAttempt + 1
      /\ exAttempt < A
      /\ Len(exErrs) \in {exAttempt, exAttempt + 1}
      /\ \A i \in 1..exAttempt : isRetriableError(exErrs[i])
      /\ Len(exErrs) = exAttempt + 1 =>
           IF isRetriableError(Last(exErrs)) /\ exAttempt + 1 < A
             THEN exPc = "backoff"
             ELSE /\ exPc = "done"
                  /\ exResp = RespC(Null, caughtError(Last(exErrs)), Undefined)
      /\ (exPc = "done" /\ Len(exErrs) = exAttempt /\ rqRows >= 0) =>
           /\ exResp.data # Null \/ exResp.error # Null \/ state.maybeSingle
           /\ exResp.error = Null \/ exResp.error = shapeError(rqRows)
      /\ Cardinality(SqlSends) <= A
      /\ Cardinality(SqlSends) = Len(sqlErrs) + (IF sqlPc = "done" /\ sqlResp.error = Null
                                                   THEN 1 ELSE 0)
      /\ sqlAttempt < A
      /\ \A i \in 1..sqlAttempt : isRetriableError(sqlErrs[i])
      /\ Len(sqlErrs) = sqlAttempt + 1 =>
           IF isRetriableError(Last(sqlErrs)) /\ sqlAttempt + 1 < A
             THEN sqlPc = "backoff"
             ELSE /\ sqlPc = "done"
                  /\ sqlResp = Response(Null, createErrorFromThrown(S_QUERY,
                                          "Unknown query error", Last(sqlErrs)))

C3_Witness ==
    /\ exPc = "done" /\ exAttempt = 1 /\ Len(exErrs) = 1 /\ isRetriableError(exErrs[1])
    /\ exResp.error = Null /\ Cardinality(PrimarySends) = 2

\* the cancels execute() issued on conn
ExecCancels(conn) == {i \in 1..Len(log) : log[i] = Cancelled(conn, "exec")}
\* the statements execute() sent on conn
ExecSendsOn(conn) ==
    {i \in 1..Len(log) : log[i].ev = "send" /\ log[i].by = "exec" /\ log[i].conn = conn}

S_ABORTED == <<"A", "B", "O", "R", "T", "E", "D">>

ExecInFlight == rqPc \in {"timeout", "primary", "count"}
\* the connections execute() borrowed and gave back
ExecAcquires == {i \in 1..Len(log) : log[i].ev = "connect" /\ log[i].by = "exec"}
ExecReleases == {i \in 1..Len(log) : log[i].ev = "release" /\ log[i].by = "exec"}

\* C5: outside a transaction, a connection execute() borrowed is released once per
\* attempt that borrowed it, and no statement of the call is in flight on it, or is
\* sent on it, once it is back in the pool.
C5_ExclusiveBorrow ==
    ctxClient = "none" =>
      /\ Cardinality(ExecReleases) <= Cardinality(ExecAcquires)
      /\ exPc = "done" => Cardinality(ExecReleases) = Cardinality(ExecAcquires)
      /\ ExecInFlight => rqConn \notin free

\* C6: with single() set, a primary result of 0 rows resolves with an error and data
\* null, of 1 row with that row and error null, of 2 or more rows with data null and
\* the code PGRST116.
C6_SingleShape ==
    (state # Undefined /\ state.single /\ exPc = "done" /\ exAbort = "none" /\ rqRows >= 0) =>
      CASE rqRows = 0 -> exResp.data = Null /\ exResp.error # Null
        [] rqRows = 1 -> exResp.data = [row |-> 1] /\ exResp.error = Null
        [] OTHER -> exResp.data = Null /\ CodeOf(exResp.error) = S_PGRST116

\* C7: with maybeSingle() set and single() not, a primary result of 0 rows resolves
\* with { data: null, error: null }, of 1 row with that row and error null, of 2 or
\* more rows with data null and the row-shape error, which ends the call.
C7_MaybeSingleShape ==
    (/\ state # Undefined /\ state.maybeSingle /\ ~state.single
     /\ exPc = "done" /\ exAbort = "none" /\ rqRows >= 0) =>
      CASE rqRows = 0 -> exResp.data = Null /\ exResp.error = Null
        [] rqRows = 1 -> exResp.data = [row |-> 1] /\ exResp.error = Null
        [] OTHER -> /\ exResp.data = Null
                    /\ CodeOf(exResp.error) = S_PGRST116
                    /\ Len(exErrs) = exAttempt

C7_Witness ==
    /\ state # Undefined /\ state.maybeSingle /\ ~state.single
    /\ exPc = "done" /\ exAbort = "none" /\ rqRows = 0
    /\ exResp.data = Null /\ exResp.error = Null

\* C8: when compile throws (a bad identifier, an oversized IN list, the bulk cap),
\* execute() and stream() resolve with data null and an error of code VALIDATION,
\* no connection is taken, nothing is sent, and no retry policy makes an attempt.
C8_CompileFailure ==
    (state # Undefined /\ compileThrown(state, safety) # NoThrow) =>
      /\ log = <<>>
      /\ onQueryLog = <<>>
      /\ free = Conns \ {ctxClient}
      /\ exAttempt = 0 /\ exErrs = <<>> /\ exPc \in {"idle", "compile", "done"}
      /\ exPc = "done" => exResp.data = Null /\ CodeOf(exResp.error) = S_VALIDATION
      /\ stPc \in {"idle", "call", "done"}
      /\ stPc = "done" => stResp.data = Null /\ CodeOf(stResp.error) = S_VALIDATION

C8_Witness ==
    /\ state # Undefined /\ compileThrown(state, safety) # NoThrow
    /\ exPc = "done" /\ maxAttemptsOf(retries) = 2
    /\ CodeOf(exResp.error) = S_VALIDATION /\ exResp.error.message = "IN list too large: limit 2 elements"

\* C9: the stream yields exactly the rows the backend emits, each once and in
\* arrival order, whenever they arrive relative to the consumer's pulls.
C9_RowsInOrder ==
    /\ yielded = SubSeq(Rows(qEmitted), 1, Len(yielded))
    /\ genPc = "completed" => yielded = Rows(qEmitted)

\* C10: once the backend has signalled end and the buffered rows are consumed, the
\* iteration finishes: no pull stays pending.
C10_CompletesOnEnd ==
    (qPc = "end" /\ queue = <<>>) => genPc # "awaiting"

\* C11: after the backend reports an error for the streaming statement, the
\* consumer's iteration raises it: the iteration never ends as a normal completion.
C11_ErrorSurfaces ==
    qPc = "error" => genPc # "completed"

\* the cancels and releases close() made
CloseCancels == {i \in 1..Len(log) : log[i].ev = "cancel" /\ log[i].by = "stream"}
CloseReleases == {i \in 1..Len(log) : log[i].ev = "release" /\ log[i].by = "close"}

\* C12: close() on a stream cancels the streaming statement on its connection and
\* releases the connection stream() borrowed from the pool; a second close() does
\* nothing more.
C12_CloseOnce ==
    /\ Cardinality(CloseCancels) <= 1
    /\ Cardinality(CloseReleases) <= 1
    /\ closed <=> CloseCancels # {}
    /\ closed =>
         /\ \A i \in CloseCancels : log[i] = Cancelled(stClient, "stream")
         /\ IF stBorrowed # "none"
              THEN /\ \A i \in CloseCancels : log[i + 1] = Released(stBorrowed, "close")
                   /\ stBorrowed \in free
              ELSE CloseReleases = {}

C12_Witness ==
    /\ closed /\ genPc = "awaiting" /\ stBorrowed # "none"
    /\ CloseReleases # {} /\ Len(yielded) = 1

\* the count statements execute() sent and the answers to them
CountSends == {i \in 1..Len(log) : log[i].ev = "send" /\ log[i].stmt = "COUNT"}
CountFailures ==
    {i \in 1..Len(log) : log[i].ev = "reply" /\ log[i].stmt = "COUNT" /\ ~log[i].ok}

\* C13: a count statement that fails, or whose figure cannot be read, leaves the
\* primary result as it is: the response carries the primary data, error null and
\* no count, and the failure causes no further attempt.
C13_CountSwallowed ==
    (exPc = "done" /\ exAbort = "none" /\ CountSends # {}) =>
      /\ exResp.error = Null
      /\ exResp.data = dataOf(rqRows)
      /\ CountFailures # {} => exResp.count = Undefined
      /\ exResp.count # Undefined => exResp.count = Some(rqRows)
      /\ Len(exErrs) = exAttempt
      /\ Cardinality(CountSends) = 1
      /\ \A e \in 1..Len(onErrorLog) : e <= Len(exErrs)

C13_Witness ==
    /\ exPc = "done" /\ exAbort = "none" /\ CountFailures # {}
    /\ maxAttemptsOf(retries) = 2 /\ exAttempt = 0
    /\ exResp.error = Null /\ exResp.count = Undefined /\ rqRows = 2

\* the answers to the primary statement
PrimaryReplies == {i \in 1..Len(log) : log[i].ev = "reply" /\ log[i].stmt = "PRIMARY"}

\* C14: the count statement goes out only after the primary statement's answer,
\* and on the connection that ran the primary statement, whatever the context.
C14_CountSameConnection ==
    \A i \in CountSends :
      /\ PrimaryReplies # {}
      /\ \E j \in PrimaryReplies :
           /\ j < i
           /\ \A k \in PrimaryReplies : k <= j \/ k > i
           /\ log[j].ok
           /\ log[j].conn = log[i].conn

\* C15: when the callback, BEGIN or COMMIT fails and the ROLLBACK that follows fails
\* too, transaction() still resolves, with data null and a TRANSACTION error whose
\* message and details are those of the first failure, not of the ROLLBACK.
C15_RollbackContained ==
    (txPc \in {"finally", "done"} /\ \E i \in TxSent("ROLLBACK") : ~log[i].ok) =>
      /\ txErr \in Causes
      /\ txResp.data = Null
      /\ CodeOf(txResp.error) = S_TRANSACTION
      /\ txResp.error.details = txErr
      /\ txResp.error.message = (IF txErr.isError THEN txErr.message
                                 ELSE "Transaction failed")
      /\ Last(onErrorLog) = txResp.error

C15_Witness ==
    /\ txPc = "done" /\ txCallback = "threw" /\ txErr = E_UNIQUE
    /\ \E i \in TxSent("ROLLBACK") : ~log[i].ok
    /\ txResp.error.message = E_UNIQUE.message

\* C16: transaction() on the scoped client resolves at once with a VALIDATION error
\* response: the nested callback is not invoked, nothing is sent on the
\* transaction's connection, no connection is acquired, and the outer transaction
\* is where it was.
C16_NestedRejected ==
    /\ [](txNested # Null =>
            /\ txNested.resp.data = Null
            /\ CodeOf(txNested.resp.error) = S_VALIDATION
            /\ ~txNested.invoked
            /\ Cardinality(TxSent("BEGIN")) = 1
            /\ Cardinality({i \in 1..Len(log) : log[i].ev = "connect"}) = 1)
    /\ [][txNested' # txNested =>
            UNCHANGED <<free, log, onErrorLog, onQueryLog, sqlVars, txPc, txConn, txErr,
                        txValue, txCallback, txStmts, txResp>>]_vars

C16_Witness ==
    /\ txNested # Null /\ txPc = "done" /\ txCallback = "returned"
    /\ txResp.error = Null /\ CodeOf(txNested.resp.error) = S_VALIDATION

\* C17: every statement a call on the scoped client issues (builders with their
\* timeout, abort and count paths, sql(), raw(), healthCheck(), stream()) goes out on
\* the transaction's one connection, and no such call acquires or releases a pool
\* connection.
C17_ScopedConnection ==
    ctxClient # "none" =>
      /\ \A i \in 1..Len(log) :
           /\ log[i].ev \in {"send", "reply", "cancel"}
           /\ log[i].conn = ctxClient
      /\ free = Conns \ {ctxClient}
      /\ exBorrowed = "none" /\ stBorrowed = "none"

C17_Witness ==
    /\ ctxClient = "c1" /\ exPc = "done" /\ exResp.error = Null
    /\ hasTimeout /\ CountSends # {} /\ rqRows = 1
    /\ \E i \in 1..Len(log) : log[i] = Sent("c1", "SET_TIMEOUT", "exec", TRUE)

\* the statement compile returned is not the empty one
CompiledStatement == compiled # Null /\ compiled.ok /\ compiled.text # <<>>

\* the positions of the text that hold a placeholder
PlaceholderPositions ==
    {i \in DOMAIN compiled.text : compiled.text[i].kind = "ph"}

\* the placeholder numbers that occur in the text
PlaceholderNumbers == {compiled.text[i].num : i \in PlaceholderPositions}

\* C18: for every builder state that compiles to a non-empty statement, the length
\* of values equals the number of distinct positional placeholders in the text.
C18_ValuesMatchPlaceholders ==
    CompiledStatement => Len(compiled.values) = Cardinality(PlaceholderNumbers)

\* C19: the placeholder numbers occurring in a compiled text are exactly 1..N with
\* none skipped, and no placeholder number is used at more than one position.
C19_PlaceholderNumbering ==
    CompiledStatement =>
        /\ PlaceholderNumbers = 1..Cardinality(PlaceholderNumbers)
        /\ \A i, j \in PlaceholderPositions :
               compiled.text[i].num = compiled.text[j].num => i = j

\* C20: every identifier that appears in a compiled text satisfies the identifier
\* grammar, and a compile that fails over an identifier fails with VALIDATION and
\* gives no statement.
C20_IdentifiersValid ==
    compiled # Null =>
        /\ compiled.ok =>
             \A i \in DOMAIN compiled.text :
                 compiled.text[i].kind = "id" =>
                     validateIdentifier(compiled.text[i].name, "column") = NoThrow
        /\ (~compiled.ok /\ isDbError(compiled.thrown)) =>
             /\ CodeOf(compiled.thrown) = S_VALIDATION
             /\ compiled.text = <<>>

\* the in and notIn filters of the builder state that carry a list
InFilters ==
    {i \in DOMAIN state.filters :
        state.filters[i].type \in {"in", "notIn"} /\ IsArray(state.filters[i].value)}

\* the values an update binds for its SET assignments, none for other operations
SetValues ==
    IF state.operation = "update" /\ state.updateValues # Null
      THEN Len(state.updateValues.some) ELSE 0

\* the configured limit on list elements, 1000 when none is configured
ConfiguredMaxIn ==
    IF safety # Undefined /\ safety.maxInElements # Undefined
      THEN safety.maxInElements.some ELSE 1000

\* C22: compile of a select, update or delete with an in/notIn filter whose list has
\* more elements than the configured limit (default 1000) fails with VALIDATION, the
\* message naming the limit; a list of exactly the limit compiles and binds one value
\* per element.
C22_InListLimit ==
    (compiled # Null /\ state.operation \in {"select", "update", "delete"}) =>
        /\ (\E i \in InFilters : Len(state.filters[i].value.arr) > ConfiguredMaxIn) =>
              /\ ~compiled.ok
              /\ CodeOf(compiled.thrown) = S_VALIDATION
        /\ \A i \in InFilters :
              Len(state.filters) = 1 =>
                 IF Len(state.filters[i].value.arr) > ConfiguredMaxIn
                   THEN compiled.thrown.message =
                          (IF state.filters[i].type = "in" THEN "IN" ELSE "NOT IN")
                          \o " list too large: limit " \o ToString(ConfiguredMaxIn)
                          \o " elements"
                   ELSE /\ compiled.ok
                        /\ Len(compiled.values) >= Len(state.filters[i].value.arr)
                        /\ \A k \in DOMAIN state.filters[i].value.arr :
                              /\ SetValues + k \in PlaceholderNumbers
                              /\ compiled.values[SetValues + k] =
                                    [scalar |-> state.filters[i].value.arr[k]]

\* a notIn list one over a configured limit was rejected
C22_Witness ==
    /\ compiled # Null
    /\ InFilters = {1}
    /\ safety # Undefined
    /\ state.filters[1].type = "notIn"
    /\ Len(state.filters[1].value.arr) = ConfiguredMaxIn + 1
    /\ ~compiled.ok

\* the bulk values of an insert or upsert that reaches its branch of compile
BulkValues ==
    IF state.operation = "insert" THEN state.insertValues.some
    ELSE state.upsertValues.some

\* the configured cap on the parameters of one statement, 5000 when none is configured
ConfiguredMaxTotal ==
    IF safety # Undefined /\ "maxTotalParams" \in DOMAIN safety
       /\ safety.maxTotalParams # Undefined
      THEN safety.maxTotalParams.some ELSE 5000

\* C23: compile of an insert or upsert of R rows by C columns fails with a VALIDATION
\* "too large" error whenever R*C exceeds the configured maxTotalParams, and succeeds
\* when R*C equals it.
C23_BulkCap ==
    (compiled # Null /\ compileBranch(state) \in {"insert", "upsert"}
       /\ BulkValues.rows > 0) =>
        LET product == BulkValues.rows * Len(BulkValues.keys)
        IN  /\ product > ConfiguredMaxTotal =>
                /\ ~compiled.ok
                /\ CodeOf(compiled.thrown) = S_VALIDATION
                /\ compiled.thrown.message =
                     (IF state.operation = "insert" THEN "Insert" ELSE "Upsert")
                     \o " too large: would create more than "
                     \o ToString(ConfiguredMaxTotal) \o " parameters"
            /\ product = ConfiguredMaxTotal => compiled.ok

\* the last k tokens of the compiled text
TextTail(k) ==
    SubSeq(compiled.text, Len(compiled.text) - k + 1, Len(compiled.text))

\* C24: the LIMIT/OFFSET clause of a compiled select is bound as parameters, never
\* inlined: with a range it binds to-from+1 and from; otherwise with a limit it binds
\* the limit; otherwise with single or maybeSingle it binds 1; otherwise there is no
\* LIMIT.  eq("id", 1).single() on users compiles to
\* SELECT * FROM "public"."users" WHERE "id" = $1 LIMIT $2 with values [1, 1].
C24_LimitOffset ==
    (compiled # Null /\ compiled.ok /\ state.operation = "select") =>
        LET n == Len(compiled.values)
            Keywords == {compiled.text[i].word : i \in DOMAIN compiled.text}
        IN  /\ IF state.rangeFrom # Null /\ state.rangeTo # Null
                 THEN /\ n >= 2
                      /\ TextTail(4) = <<Kw("LIMIT"), Ph(n - 1), Kw("OFFSET"), Ph(n)>>
                      /\ compiled.values[n - 1] =
                            [scalar |-> state.rangeTo.some - state.rangeFrom.some + 1]
                      /\ compiled.values[n] = [scalar |-> state.rangeFrom.some]
               ELSE IF state.limitCount # Null
                 THEN /\ n >= 1
                      /\ TextTail(2) = <<Kw("LIMIT"), Ph(n)>>
                      /\ compiled.values[n] = [scalar |-> state.limitCount.some]
                      /\ "OFFSET" \notin Keywords
               ELSE IF state.single \/ state.maybeSingle
                 THEN /\ n >= 1
                      /\ TextTail(2) = <<Kw("LIMIT"), Ph(n)>>
                      /\ compiled.values[n] = [scalar |-> 1]
                      /\ "OFFSET" \notin Keywords
               ELSE "LIMIT" \notin Keywords /\ "OFFSET" \notin Keywords
            /\ Cardinality({i \in DOMAIN compiled.text :
                               compiled.text[i].word \in {"LIMIT", "OFFSET"}}) <= 2
            /\ state = [SelectById EXCEPT !.single = TRUE] =>
                 /\ compiled.text =
                      << Kw("SELECT"), Kw("*"), Kw("FROM"), quoteId(S_public), Kw("."),
                         quoteId(S_users), Kw("WHERE"), quoteId(S_id), Kw("="), Ph(1),
                         Kw("LIMIT"), Ph(2) >>
                 /\ compiled.values = << [scalar |-> 1], [scalar |-> 1] >>

\* a select with range(5, 5), limit(7) and single() compiled: LIMIT 1 OFFSET 5
C24_Witness ==
    /\ compiled # Null /\ compiled.ok
    /\ state.operation = "select"
    /\ state.rangeFrom = Some(5) /\ state.rangeTo = Some(5)
    /\ state.limitCount = Some(7) /\ state.single
    /\ compiled.values[Len(compiled.values) - 1] = [scalar |-> 1]
    /\ compiled.values[Len(compiled.values)] = [scalar |-> 5]

\* the positions of the compiled text that hold the keyword word
KeywordAt(word) == {i \in DOMAIN compiled.text : compiled.text[i] = Kw(word)}

\* the elements of a sequence
Range(seq) == {seq[i] : i \in DOMAIN seq}

\* C25: a compiled upsert holds ON CONFLICT (<conflict columns>) DO NOTHING when
\* ignore-duplicates is true; when it is false it holds DO UPDATE SET col = EXCLUDED.col
\* for exactly the inserted columns that are no conflict columns, and the statement is
\* well formed for every non-empty conflict-column set: DO UPDATE SET is followed by
\* an assignment.
C25_UpsertConflict ==
    (compiled # Null /\ compiled.ok /\ compileBranch(state) = "upsert") =>
        LET keys == state.upsertValues.some.keys
            conflict == state.upsertConflictColumns.some
            text == compiled.text
        IN  /\ \E p \in KeywordAt("ON CONFLICT (") :
                  /\ \A i \in DOMAIN conflict : text[p + 2 * i - 1] = quoteId(conflict[i])
                  /\ text[p + 2 * Len(conflict)] = Kw(")")
                  /\ text[p + 2 * Len(conflict) + 1] =
                       Kw(IF state.upsertIgnoreDuplicates THEN "DO NOTHING"
                          ELSE "DO UPDATE SET")
            /\ state.upsertIgnoreDuplicates => KeywordAt("DO UPDATE SET") = {}
            /\ ~state.upsertIgnoreDuplicates =>
                  /\ KeywordAt("DO NOTHING") = {}
                  /\ {text[i - 1].name : i \in KeywordAt("= EXCLUDED.")}
                       = Range(keys) \ Range(conflict)
                  /\ \A i \in KeywordAt("= EXCLUDED.") : text[i + 1] = text[i - 1]
                  /\ \A p \in KeywordAt("DO UPDATE SET") :
                        /\ p < Len(text)
                        /\ text[p + 1].kind = "id"

RECURSIVE FilterValues(_)
FilterValues(filters) ==
    IF filters = <<>> THEN <<>>
    ELSE LET f == Head(filters)
             own == CASE f.type = "or" -> [i \in DOMAIN f.orFilters |-> f.orFilters[i].value]
                      [] f.type = "match" ->
                           [i \in DOMAIN f.matchRecord |-> f.matchRecord[i].value]
                      [] f.type \in {"in", "notIn"} ->
                           [i \in DOMAIN f.value.arr |-> [scalar |-> f.value.arr[i]]]
                      [] f.type = "textSearch" -> << [config |-> "english"], f.value >>
                      [] OTHER -> <<f.value>>
         IN  own \o FilterValues(Tail(filters))

\* the columns the filters name, filter by filter in the order they were added
RECURSIVE FilterColumns(_)
FilterColumns(filters) ==
    IF filters = <<>> THEN <<>>
    ELSE LET f == Head(filters)
             own == CASE f.type = "or" -> [i \in DOMAIN f.orFilters |-> f.orFilters[i].column]
                      [] f.type = "match" ->
                           [i \in DOMAIN f.matchRecord |-> f.matchRecord[i].key]
                      [] OTHER -> <<f.column>>
         IN  own \o FilterColumns(Tail(filters))

\* the tokens of the WHERE clause: from the keyword to the next clause or the end
WhereTokens ==
    IF KeywordAt("WHERE") = {} THEN <<>>
    ELSE LET from == CHOOSE p \in KeywordAt("WHERE") : TRUE
             stops == {i \in DOMAIN compiled.text :
                         /\ i > from
                         /\ compiled.text[i].word \in {"ORDER BY", "LIMIT", "RETURNING"}}
             to == IF stops = {} THEN Len(compiled.text)
                   ELSE (CHOOSE i \in stops : \A j \in stops : i <= j) - 1
         IN  SubSeq(compiled.text, from, to)

\* C27: within one compiled statement the parameter order follows assembly order: in
\* an update every value bound for a SET assignment precedes every value bound for a
\* WHERE filter, and for select, update and delete the WHERE fragments are joined in
\* the order the filters were added, with their values in that same order.
C27_AssemblyOrder ==
    (compiled # Null /\ compiled.ok
       /\ compileBranch(state) \in {"select", "update", "delete"}) =>
        LET IsBound(v) == v # Undefined
            IsId(tok) == tok.kind = "id"
            IsPh(tok) == tok.kind = "ph"
            whereValues ==
                SubSeq(compiled.values, SetValues + 1,
                       Len(compiled.values) - Len(pageClause(state, 1).values))
            wherePh == SelectSeq(WhereTokens, IsPh)
            whereIds == SelectSeq(WhereTokens, IsId)
        IN  /\ \A i \in 1..SetValues :
                 /\ compiled.values[i] = state.updateValues.some[i].value
                 /\ \A p \in PlaceholderPositions :
                       compiled.text[p].num = i =>
                           \A w \in KeywordAt("WHERE") : p < w
            /\ \A i \in DOMAIN wherePh : wherePh[i].num > SetValues
            /\ \A i, j \in DOMAIN wherePh : i <= j => wherePh[i].num <= wherePh[j].num
            /\ SelectSeq(whereValues, IsBound) = FilterValues(state.filters)
            /\ [i \in DOMAIN whereIds |-> whereIds[i].name] = FilterColumns(state.filters)

\* an update with two different filters compiled: one SET value, then the filters'
C27_Witness ==
    /\ compiled # Null /\ compiled.ok
    /\ state.operation = "update"
    /\ Len(state.filters) = 2
    /\ state.filters[1].type = "in" /\ state.filters[2].type = "eq"
    /\ compiled.values = << [scalar |-> 1], [scalar |-> 1], [scalar |-> 2], [scalar |-> 1] >>

\* C21: after client setup no public call raises for a validation failure: from(),
\* every chained filter and modifier method, limit() and range() with invalid numbers
\* included, return normally.
C21_NeverRaises ==
    called # Null => outcome = NoThrow

\* the methods that make themselves the operation
WriteMethods == {"insert", "update", "upsert", "delete", "rpc"}

\* C28: after any sequence of builder calls one operation is active: that of the most
\* recent insert/update/upsert/delete/rpc call, or select when there was none;
\* select() never changes it (on a write operation it only sets the RETURNING
\* columns), and filter, order, limit, range, single, maybeSingle and abortSignal
\* calls never change it.
C28_OneOperation ==
    /\ []((called # Null /\ called.method = "from" /\ state # Undefined) =>
             state.operation = "select")
    /\ [][(called' # called /\ state # Undefined) =>
             /\ IF called'.method \in WriteMethods
                  THEN state'.operation = called'.method
                  ELSE state'.operation = state.operation
             /\ (called'.method = "select" /\ state.operation \in WriteMethods \ {"rpc"}) =>
                   /\ state'.returnSelect # Null
                   /\ [state' EXCEPT !.returnSelect = state.returnSelect] = state]_vars

\* select() was called on a builder whose operation a delete() replaced an insert():
\* the operation is still delete, and RETURNING columns are set
C28_Witness ==
    /\ called # Null /\ called.n = 4 /\ called.method = "select"
    /\ state.operation = "delete"
    /\ state.insertValues # Null
    /\ state.returnSelect # Null

\* C29: validateIdentifier(name, kind) accepts exactly the names of 1 to 63 characters
\* whose first character is a letter or underscore and whose other characters are
\* letters, digits or underscores; every other name fails with a VALIDATION error.
C29_IdentifierGrammar ==
    (called # Null /\ called.method = "validateIdentifier") =>
        LET name == called.name
            InGrammar ==
                /\ Len(name) \in 1..63
                /\ name[1] \in Letters \cup {"_"}
                /\ \A i \in 2..Len(name) : name[i] \in Letters \cup Digits \cup {"_"}
        IN  IF InGrammar THEN outcome = NoThrow
            ELSE outcome # NoThrow /\ isDbError(outcome) /\ outcome.code = S_VALIDATION

\* a well-formed name of 64 characters was rejected
C29_Witness ==
    /\ called # Null /\ called.method = "validateIdentifier"
    /\ Len(called.name) = 64
    /\ \A i \in DOMAIN called.name : called.name[i] = "a"
    /\ outcome # NoThrow

\* C30: isRetriableError(cause) is true exactly when the cause's string code begins
\* with 08 or 40 or is one of ECONNRESET, ETIMEDOUT, ECONNREFUSED, ENOTFOUND, EPIPE,
\* EAI_AGAIN; it is false for every other cause, those with no string code included.
C30_RetriableExactly ==
    (called # Null /\ called.method = "isRetriableError") =>
        LET cause == called.cause
            code == IF cause \notin {Null, Undefined} /\ cause.hasCode
                      THEN cause.code ELSE <<>>
            Expected ==
                \/ Len(code) >= 2 /\ SubSeq(code, 1, 2) \in {<<"0", "8">>, <<"4", "0">>}
                \/ code \in { <<"E", "C", "O", "N", "N", "R", "E", "S", "E", "T">>,
                              <<"E", "T", "I", "M", "E", "D", "O", "U", "T">>,
                              <<"E", "C", "O", "N", "N", "R", "E", "F", "U", "S", "E", "D">>,
                              <<"E", "N", "O", "T", "F", "O", "U", "N", "D">>,
                              <<"E", "P", "I", "P", "E">>,
                              <<"E", "A", "I", "_", "A", "G", "A", "I", "N">> }
        IN  outcome = [returned |-> Expected]

(***************************************************************************)
(* Claims about the hooks, checked under SpecHooks.                        *)
(***************************************************************************)
\* the statements onQuery is told of that went out
ObservedSends ==
    {i \in 1..Len(log) : log[i].ev = "send" /\ log[i].stmt \in {"SQL", "PRIMARY", "COUNT"}}

\* a setImmediate callback of the hooks runs in this step
HookRan == ranOnQuery' # ranOnQuery \/ ranOnError' # ranOnError

DataOrError(resp) == resp # Null => (resp.error # Null => resp.data = Null)

\* C32: every response execute(), stream(), sql() (raw(), healthCheck()),
\* transaction() and the scoped transaction() resolve with has data null whenever
\* its error is not null, whatever the outcome.
C32_DataOrError ==
    /\ DataOrError(exResp)
    /\ DataOrError(stResp)
    /\ DataOrError(sqlResp)
    /\ DataOrError(txResp)
    /\ txNested # Null => DataOrError(txNested.resp)

C32_Witness ==
    /\ exPc = "done" /\ rqRows = 2 /\ state.single
    /\ CodeOf(exResp.error) = S_PGRST116 /\ exResp.data = Null

(***************************************************************************)
(* Claims about execute(), checked under SpecCall.                         *)
(***************************************************************************)
\* the timeout-setting statements execute() has sent
TimeoutSends ==
    {i \in 1..Len(log) : log[i].ev = "send" /\ log[i].stmt = "SET_TIMEOUT" /\ log[i].by = "exec"}
\* something is sent strictly between positions j and i of the log
SendBetween(j, i) == \E k \in (j + 1)..(i - 1) : log[k].ev = "send"

\* C33: with a statement timeout configured, every primary statement of execute()
\* is preceded by a timeout-setting statement sent on the same connection with no
\* other statement in between, one per attempt that gets to send; a call that would
\* run on the pool borrows a connection first and, without an abort signal, holds it
\* until the primary statement is answered; a failing timeout-setting statement is
\* followed by the primary statement and is in no response, error list or report.
C33_TimeoutFirst ==
    (state # Undefined /\ hasTimeout) =>
      /\ \A i \in PrimarySends :
           \E j \in TimeoutSends :
             /\ j < i
             /\ log[j].conn = log[i].conn
             /\ ~SendBetween(j, i)
      /\ Cardinality(TimeoutSends)
           = Cardinality(PrimarySends) + (IF rqPc = "timeout" THEN 1 ELSE 0)
      /\ ctxClient = "none" =>
           \A j \in TimeoutSends :
             \E a \in 1..(j - 1) :
               /\ log[a] = Acquired(log[j].conn, "exec")
               /\ \A k \in (a + 1)..j : log[k] # Released(log[j].conn, "exec")
               /\ state.abortSignal = "null" =>
                    \A k \in (a + 1)..Len(log) :
                      log[k] = Released(log[j].conn, "exec") =>
                        \E r \in (j + 1)..(k - 1) :
                          log[r].ev = "reply" /\ log[r].stmt = "PRIMARY"
      /\ \A k \in 1..Len(log) :
           log[k] = Replied(log[k].conn, "SET_TIMEOUT", "exec", FALSE) =>
             /\ k < Len(log)
             /\ log[k + 1] = Sent(log[k].conn, "PRIMARY", "exec", TRUE)
      /\ \A e \in 1..Len(exErrs) : exErrs[e] # E_SET_LOCAL
      /\ \A e \in 1..Len(onErrorLog) : onErrorLog[e].details # E_SET_LOCAL
      /\ (exResp # Null /\ exResp.error # Null) => exResp.error.details # E_SET_LOCAL

C33_Witness ==
    /\ state # Undefined /\ hasTimeout /\ ctxClient = "none" /\ state.abortSignal = "null"
    /\ exPc = "done" /\ exAttempt = 1 /\ exResp.error = Null
    /\ Cardinality(TimeoutSends) = 2
    /\ \E k \in 1..Len(log) : log[k] = Replied(exBorrowed, "SET_TIMEOUT", "exec", FALSE)

\* no statement has gone out
NothingSent == \A i \in 1..Len(log) : log[i].ev # "send"

\* C34: a call that ends because pool.connect() failed (transaction(), execute()
\* borrowing for an abort signal or a statement timeout, and stream()) resolves with
\* data null and an error of code CONNECTION, and nothing was sent.
C34_ConnectionCode ==
    /\ (txPc = "done" /\ txConn = "none") =>
          /\ NothingSent
          /\ txResp.data = Null
          /\ CodeOf(txResp.error) = S_CONNECTION
    /\ (exPc = "done" /\ exErrs # <<>> /\ log = <<>>) =>
          /\ exResp.data = Null
          /\ CodeOf(exResp.error) = S_CONNECTION
    /\ (stPc = "done" /\ stResp.error # Null /\ onErrorLog # <<>>
        /\ state # Undefined /\ compileThrown(state, safety) = NoThrow) =>
          /\ NothingSent
          /\ CodeOf(stResp.error) = S_CONNECTION

(***************************************************************************)
(* Further claims about transaction(), checked under SpecTx.               *)
(***************************************************************************)
\* the statements of kind stmt the backend failed
TxFailed(stmt) == {i \in 1..Len(log) : log[i] = Sent(txConn, stmt, "tx", FALSE)}

\* C35: when BEGIN fails the callback is never invoked (it neither returns nor
\* throws and issues nothing) and COMMIT is never sent; when COMMIT fails after the
\* callback returned, the response does not carry the callback's value; in both
\* cases ROLLBACK is sent exactly once, after the failure, and the call resolves with
\* data null and an error of code TRANSACTION.
C35_BeginCommitFailure ==
    /\ TxFailed("BEGIN") # {} =>
         /\ txPc \in {"rollback", "finally", "done"}
         /\ txCallback = "pending" /\ txStmts = 0 /\ txNested = Null
         /\ SqlSends = {}
         /\ TxSent("COMMIT") = {}
    /\ TxFailed("COMMIT") # {} =>
         /\ txPc \in {"rollback", "finally", "done"}
         /\ txCallback = "returned"
         /\ Cardinality(TxSent("COMMIT")) = 1
    /\ (TxFailed("BEGIN") \cup TxFailed("COMMIT") # {} /\ txPc \in {"finally", "done"}) =>
         /\ Cardinality(TxSent("ROLLBACK")) = 1
         /\ \A r \in TxSent("ROLLBACK") :
              \A i \in TxFailed("BEGIN") \cup TxFailed("COMMIT") : i < r
         /\ txResp.data = Null
         /\ CodeOf(txResp.error) = S_TRANSACTION
         /\ txResp.error.details = txErr

C35_Witness ==
    /\ txPc = "done" /\ TxFailed("COMMIT") # {} /\ txValue = [value |-> "v1"]
    /\ txResp.data = Null /\ CodeOf(txResp.error) = S_TRANSACTION
    /\ Cardinality(TxSent("ROLLBACK")) = 1

\* the BEGIN case of C35 is reached as well
C35_BeginWitness ==
    /\ txPc = "done" /\ TxFailed("BEGIN") # {} /\ txCallback = "pending"
    /\ TxSent("ROLLBACK") # {}

(***************************************************************************)
(* Further claims about execute() and stream(), checked under SpecCall.    *)
(***************************************************************************)
\* every backend cancel issued so far
Cancels == {i \in 1..Len(log) : log[i].ev = "cancel"}

\* C36: once execute() on the pool has resolved and its connection is back in the
\* pool, an abort of its signal issues no backend cancel: the cancels in the log stay
\* what they were.
C36_NoCancelAfterResolve ==
    [][(exPc = "done" /\ ctxClient = "none" /\ free = Conns /\ aborted' # aborted)
         => Cancels' = Cancels]_vars

\* the releases of the connection stream() borrowed, by the generator and by close()
StreamReleases ==
    {i \in 1..Len(log) : log[i].ev = "release" /\ log[i].by \in {"stream", "close"}}

\* C37: the connection stream() borrowed from the pool is released at most once,
\* and exactly once when the iteration has ended (exhausted, failed or abandoned) or
\* close() was called.
C37_StreamReleasedOnce ==
    stBorrowed # "none" =>
      /\ Cardinality(StreamReleases) <= 1
      /\ (closed \/ genPc \in {"completed", "returned", "threw"}) =>
           Cardinality(StreamReleases) = 1

\* a statement of the scoped client failed at the backend and the call that issued
\* it has resolved
ScopedFailure == txStmts > 0 /\ sqlPc = "done" /\ sqlResp.error # Null

\* C38: a scoped statement that fails at the backend resolves to a response with
\* data null and an error, and the step in which the scoped call settles always
\* hands control back to the callback; when the callback then returns, COMMIT is
\* sent and ROLLBACK is not, unless COMMIT itself fails, and with COMMIT accepted
\* transaction() resolves with the callback's value and error null.
C38_ScopedFailureNoRollback ==
    /\ [](ScopedFailure =>
            /\ sqlResp.data = Null
            /\ CodeOf(sqlResp.error) = S_QUERY
            /\ txPc = "rollback" => txCallback = "threw" \/ TxFailed("COMMIT") # {}
            /\ (txCallback = "returned" /\ txPc \in {"finally", "done"}) =>
                 /\ Cardinality(TxSent("COMMIT")) = 1
                 /\ TxSent("ROLLBACK") # {} => TxFailed("COMMIT") # {}
                 /\ TxFailed("COMMIT") = {} => txResp = Response(txValue, Null))
    /\ [][txPc = "awaitSql" => txPc' \in {"awaitSql", "callback"}]_vars

C38_Witness ==
    /\ ScopedFailure /\ txPc = "done" /\ txCallback = "returned"
    /\ TxSentOk("COMMIT") # {} /\ TxSent("ROLLBACK") = {}
    /\ txResp.error = Null /\ txResp.data = [value |-> "v2"]
    /\ Len(sqlErrs) = 2

\* what execute() and sql() did to the pool and the connections
CallEvents == {i \in 1..Len(log) : log[i].by \in {"exec", "sql"}}

C39_SqlWitness ==
    /\ retries # Undefined /\ retries.attempts = 0
    /\ sqlPc = "done" /\ sqlResp.error.message = "Max retries exceeded" /\ log = <<>>

\* what onError is to be told once a call has resolved with resp
ReportOf(resp) == IF resp.error # Null THEN << resp.error >> ELSE <<>>

\* C40: safeInvokeOnError is called only with the error execute() and sql()
\* return: not at all while the call is running or when it resolves without error,
\* and exactly once, with the returned error, when it resolves with one.
C40_ReportedOnce ==
    /\ exPc \notin {"idle", "done"} => onErrorLog = <<>>
    /\ exPc = "done" => onErrorLog = ReportOf(exResp)
    /\ (sqlPc \notin {"idle", "done"} /\ txPc = "idle") => onErrorLog = <<>>
    /\ (sqlPc = "done" /\ txPc = "idle") => onErrorLog = ReportOf(sqlResp)

====
